---------------------------- MODULE Spec2Model ----------------------------
(***************************************************************************)
(* Component lifecycle manager of wassette (crates/wassette/src/lib.rs):   *)
(* the in-memory component map, the tool registry, the policy registry and *)
(* the plugin directory, with load_component and unload_component as       *)
(* interleaved tasks whose steps are the code's await points.              *)
(***************************************************************************)
EXTENDS Naturals, Sequences, FiniteSets, TLC

(* ------------------------------ bounds -------------------------------- *)

\* Requests (load, unload, operator edits) issued in one behaviour when two
\* callers run concurrently.
MaxOps == 2

\* Requests issued in one behaviour when each call returns before the next starts.
MaxSeqOps == 4

\* Requests issued in one behaviour beside the startup loader.
MaxStartOps == 2

(* ----------------------------- universe ------------------------------- *)

\* Component identifiers (file stems).
Ids == {"c1", "c2"}

\* Concurrent callers of the manager (tokio tasks).
Procs == {"p1", "p2"}

\* Module contents a URI can resolve to.  ModA and ModB are valid components,
\* NotWasm is rejected by Component::new, NoLink compiles but fails
\* Linker::instantiate_pre.
ValidModules == {"ModA", "ModB"}
Modules == ValidModules \cup {"NotWasm", "NoLink"}

\* What a URI resolves to: a module, or nothing (load_resource fails).
Resources == Modules \cup {"Unfetchable"}

\* The URIs callers load, as (derived id, resource): every kind of resource
\* under the id "c1", and both valid modules under "c2".
Uris == ({"c1"} \X Resources) \cup ({"c2"} \X ValidModules)

\* The ids whose policy sidecar the operator edits.
PolicyIds == {"c1"}

NoFile == "none"

\* The five files unload_component removes, in the order it removes them.
UnloadOrder == <<"wasm", "policy", "policy_meta", "metadata", "cwasm">>

(* ------------------------ functions as hash maps ----------------------- *)

EmptyMap == <<>>

Put(f, k, v) == [x \in (DOMAIN f) \cup {k} |-> IF x = k THEN v ELSE f[x]]

Remove(f, k) ==
    IF (DOMAIN f) \ {k} = {} THEN EmptyMap ELSE [x \in (DOMAIN f) \ {k} |-> f[x]]

\* tool_infos.retain(|info| info.component_id != component_id)
RECURSIVE RetainOthers(_, _)
RetainOthers(s, component_id) ==
    IF s = <<>> THEN <<>>
    ELSE IF Head(s).component_id # component_id
         THEN <<Head(s)>> \o RetainOthers(Tail(s), component_id)
         ELSE RetainOthers(Tail(s), component_id)

(* --------------------------- tool metadata ----------------------------- *)

\* ToolMetadata {identifier, schema, normalized_name} of one export.
Tool(m, name) ==
    [normalized_name |-> name, identifier |-> <<m, name>>, schema |-> <<"schema", m, name>>]

\* component_exports_to_tools: the exports of a compiled component, in order.
component_exports_to_tools(m) ==
    CASE m = "ModA" -> <<Tool("ModA", "search")>>
      [] m = "ModB" -> <<Tool("ModB", "fetch"), Tool("ModB", "search")>>
      [] m = "NoLink" -> <<Tool("NoLink", "search")>>
      [] OTHER -> <<>>

ToolNames == {"search", "fetch"}

NamesOf(tools) == [i \in DOMAIN tools |-> tools[i].normalized_name]

(* ---------------------------- ComponentRegistry ------------------------ *)

NewRegistry == [tool_map |-> EmptyMap, component_map |-> EmptyMap]

\* Faulty variant of PushTool: tool_map.insert(name, vec![info]), which drops
\* the entries other components hold under the same name.
PushToolReplacing(tool_map, component_id, t) ==
    Put(tool_map, t.normalized_name,
        <<[component_id |-> component_id, identifier |-> t.identifier, schema |-> t.schema]>>)

\* The loop body of register_tools: tool_map.entry(name).or_default().push(info)
PushTool(tool_map, component_id, t) ==
    LET info == [component_id |-> component_id,
                 identifier |-> t.identifier,
                 schema |-> t.schema]
        old == IF t.normalized_name \in DOMAIN tool_map
               THEN tool_map[t.normalized_name] ELSE <<>>
    IN Put(tool_map, t.normalized_name, Append(old, info))

RECURSIVE PushTools(_, _, _)
PushTools(tool_map, component_id, tools) ==
    IF tools = <<>> THEN tool_map
    ELSE PushTools(PushTool(tool_map, component_id, Head(tools)), component_id, Tail(tools))

register_tools(reg, component_id, tools) ==
    [tool_map |-> PushTools(reg.tool_map, component_id, tools),
     component_map |-> Put(reg.component_map, component_id, NamesOf(tools))]

\* Faulty variant of DropTool: tool_map.remove(tool_name), which drops the name
\* with every component's entry under it.
DropToolWholeName(tool_map, component_id, tool_name) ==
    IF tool_name \in DOMAIN tool_map THEN Remove(tool_map, tool_name) ELSE tool_map

\* One iteration of unregister_component's loop over the component's tool names.
DropTool(tool_map, component_id, tool_name) ==
    IF tool_name \in DOMAIN tool_map
    THEN LET kept == RetainOthers(tool_map[tool_name], component_id)
         IN IF kept = <<>> THEN Remove(tool_map, tool_name)
            ELSE Put(tool_map, tool_name, kept)
    ELSE tool_map

RECURSIVE DropTools(_, _, _)
DropTools(tool_map, component_id, names) ==
    IF names = <<>> THEN tool_map
    ELSE DropTools(DropTool(tool_map, component_id, Head(names)), component_id, Tail(names))

\* Faulty variant of unregister_component: forgets the component's name list
\* and leaves its entries in tool_map.
UnregisterNamesOnly(reg, component_id) ==
    [tool_map |-> reg.tool_map, component_map |-> Remove(reg.component_map, component_id)]

unregister_component(reg, component_id) ==
    IF component_id \in DOMAIN reg.component_map
    THEN [tool_map |-> DropTools(reg.tool_map, component_id, reg.component_map[component_id]),
          component_map |-> Remove(reg.component_map, component_id)]
    ELSE reg

\* Option<&Vec<ToolInfo>>: the empty sequence stands for None only where the
\* caller cannot tell them apart; HasToolInfo tells them apart.
HasToolInfo(reg, tool_name) == tool_name \in DOMAIN reg.tool_map

get_tool_info(reg, tool_name) == reg.tool_map[tool_name]

\* Option::None of an identifier.
NoIdentifier == <<>>

\* get_function_identifier: the identifier of the first entry, or None.
get_function_identifier(reg, tool_name) ==
    IF HasToolInfo(reg, tool_name) /\ reg.tool_map[tool_name] # <<>>
    THEN reg.tool_map[tool_name][1].identifier
    ELSE NoIdentifier

\* list_tools: the schemas of every entry of every tool name (the order of a
\* HashMap's values is unspecified; one order is chosen).
RECURSIVE FlattenSchemas(_, _)
FlattenSchemas(tool_map, names) ==
    IF names = {} THEN <<>>
    ELSE LET n == CHOOSE x \in names : TRUE
         IN [i \in DOMAIN tool_map[n] |-> tool_map[n][i].schema]
            \o FlattenSchemas(tool_map, names \ {n})

list_tools(reg) == FlattenSchemas(reg.tool_map, DOMAIN reg.tool_map)

\* get_component_id_for_tool: Ok(id), or the error it bails with.
get_component_id_for_tool(reg, tool_name) ==
    IF ~HasToolInfo(reg, tool_name)
    THEN [ok |-> FALSE, err |-> "Tool not found", id |-> "", ids |-> <<>>]
    ELSE LET tool_infos == get_tool_info(reg, tool_name)
         IN IF Len(tool_infos) > 1
            THEN [ok |-> FALSE, err |-> "Multiple components found", id |-> "",
                  ids |-> [i \in DOMAIN tool_infos |-> tool_infos[i].component_id]]
            ELSE [ok |-> TRUE, err |-> "", id |-> tool_infos[1].component_id,
                  ids |-> <<tool_infos[1].component_id>>]

(* ---------------------------- serde_json::Value ------------------------- *)

\* A JSON value: its kind k, and the text of a string or number (s), the
\* elements of an array (items) or the members of an object (map).
Null == [k |-> "null", s |-> "", items |-> <<>>, map |-> EmptyMap]

Str(s) == [k |-> "string", s |-> s, items |-> <<>>, map |-> EmptyMap]

Number(n) == [k |-> "number", s |-> ToString(n), items |-> <<>>, map |-> EmptyMap]

Array(items) == [k |-> "array", s |-> "", items |-> items, map |-> EmptyMap]

Object(map) == [k |-> "object", s |-> "", items |-> <<>>, map |-> map]

\* Option::None where a JSON value may be missing.
None == [k |-> "none", s |-> "", items |-> <<>>, map |-> EmptyMap]

\* Value::get(key): None on a value that is not an object or has no such key.
Get(v, key) == IF v.k = "object" /\ key \in DOMAIN v.map THEN v.map[key] ELSE None

\* Value::as_object: the members of an object, None otherwise.
AsObject(v) == IF v.k = "object" THEN v ELSE None

\* v.get("type").and_then(|v| v.as_str()) == Some(t)
TypeIs(v, t) == Get(v, "type") = Str(t)

\* format!("val{idx}")
ValKey(idx) == "val" \o ToString(idx)

\* str::starts_with
starts_with(key, prefix) ==
    Len(key) >= Len(prefix) /\ SubSeq(key, 1, Len(prefix)) = prefix

\* Before anything is computed from a declared output schema.
NoOutput ==
    [declared |-> None, value |-> None, did |-> {}, canonical |-> None,
     twice |-> None, given |-> None, structured |-> None, advertised |-> None,
     content |-> None]

(* ------------------------------- state --------------------------------- *)

VARIABLES
    components,       \* LifecycleManager.components: id -> ComponentInstance
    registry,         \* LifecycleManager.registry: ComponentRegistry
    policy_registry,  \* LifecycleManager.policy_registry.component_policies
    plugin_dir,       \* the files of each id in the plugin directory
    task,             \* the call each caller is in, and where in it
    ops,              \* requests issued so far
    mode,             \* how the callers are scheduled: "concurrent" or "sequential"
    out,              \* a tool's declared output schema, the guest's value and what is made of them
    live,             \* per id: the tools of its last successful load, when no
                      \* other call on the id ran beside that load and while no
                      \* later load or unload of the id has started
    boot,             \* load_existing_components_async: its phase, its semaphore
    bg                \* the background future of each directory entry

vars == <<components, registry, policy_registry, plugin_dir, task, ops, mode, out, live, boot, bg>>

\* Option::None of a content hash.
NoHash == "none"

\* The stamp of no file.
NoStamp == [file_size |-> NoFile, mtime |-> NoFile, content_hash |-> NoHash]

\* No <id>.metadata.json.
NoMetadata == [exists |-> FALSE, parses |-> FALSE, tools |-> <<>>, validation_stamp |-> NoStamp]

\* The files of an id that has none.
NoFiles ==
    [wasm |-> NoFile, cwasm |-> NoFile, metadata |-> NoMetadata,
     policy |-> NoFile, policy_meta |-> NoFile]

Absent(kind) == IF kind = "metadata" THEN NoMetadata ELSE NoFile

FileExists(id, kind) ==
    IF kind = "metadata" THEN plugin_dir[id].metadata.exists
    ELSE plugin_dir[id][kind] # NoFile

\* Contents an <id>.policy.yaml can have: one that parses and builds, one that
\* cannot be read, one PolicyParser rejects, one whose template fails to build.
PolicyFiles == {"ok", "unreadable", "unparseable", "nobuild"}

Snapshot == [components |-> components, registry |-> registry,
             policy_registry |-> policy_registry]

NoSnapshot == [components |-> EmptyMap, registry |-> NewRegistry, policy_registry |-> EmptyMap]

\* The id has no successful load that is still its latest request.
NotLive == [open |-> FALSE, tools |-> <<>>]

\* load_component returned Ok for a component with these tools.
Live(tools) == [open |-> TRUE, tools |-> tools]

\* The WasiStateTemplate built from a policy file's content.
WasiStateTemplate(content) == [policy |-> content]

\* create_default_policy_template: the template of a component with no policy.
DefaultPolicyTemplate == WasiStateTemplate("default")

\* No Store: the caller is not in an execute, or has not built its state yet.
NoStore == [made |-> FALSE, template |-> DefaultPolicyTemplate, writes |-> 0]

\* The three RwLocks of the LifecycleManager.
Locks == {"components", "registry", "policy_registry"}

\* What a call does, in the order it does it: it takes or drops one of the
\* locks, or does work of some kind.
Acquire(lock) == <<"acquire", lock>>

Release(lock) == <<"release", lock>>

FileIo == <<"work", "file_io">>

Compilation == <<"work", "compilation">>

GuestExecution == <<"work", "guest_execution">>

InMemory == <<"work", "in_memory">>

\* A lock taken for an in-memory read or mutation and dropped at the end of the
\* statement or block.
Under(lock) == <<Acquire(lock), InMemory, Release(lock)>>

\* The protocol handler of the call has returned nothing yet.
NoReply == "none"

\* A caller that is in no call.  notified counts the tool-list-changed
\* notifications the protocol handler of the call has sent, reply is what the
\* handler returned, trace is what the call has done so far.  pre is the memory as the call found it, kept
\* for sequential callers (nothing else changes memory during their calls);
\* fresh says the id was not in the component map when the call started; peers
\* says which calls on the same id were in flight during this one: 0 for none,
\* 1 for one load, 2 for anything more.  tool, function_id and store belong to
\* execute: the function name called, the identifier the registry gave for it
\* and the wasmtime Store the call owns.  listed and early belong to a tool call:
\* list_tools advertised the tool when the call was issued, and the startup
\* loader had then not finished with a component registered under the name.
Idle ==
    [pc |-> "idle", op |-> "none", id |-> "", resource |-> "", component |-> "",
     res |-> "", idx |-> 0, fresh |-> FALSE, peers |-> 0, pre |-> NoSnapshot,
     tool |-> "", function_id |-> NoIdentifier, store |-> NoStore,
     listed |-> FALSE, early |-> FALSE, notified |-> 0, reply |-> NoReply,
     trace |-> <<>>]

Running(p) == task[p].pc \notin {"idle", "done"}

\* The requests one behaviour may issue.
Budget ==
    CASE mode = "sequential" -> MaxSeqOps
      [] mode = "startup" -> MaxStartOps
      [] OTHER -> MaxOps

\* Callers are interchangeable: a call takes "p2" only while "p1" is taken, and
\* sequential callers wait for every call to have returned; beside the startup
\* loader there is one caller.
MayStart(p) ==
    /\ task[p].pc = "idle"
    /\ ops < Budget
    /\ p = "p2" => task["p1"].pc # "idle"
    /\ mode \in {"sequential", "startup"} => \A q \in Procs : task[q].pc = "idle"

\* The loads and unloads of an id that are in flight beside caller p.
InFlight(p, id) ==
    {q \in Procs \ {p} : Running(q) /\ task[q].id = id /\ task[q].op \in {"load", "unload"}}

\* peers, once one more call of kind op is seen in flight.
Joined(peers, op) == IF peers = 0 /\ op = "load" THEN 1 ELSE 2

StartTask(p, rec) ==
    [q \in Procs |->
        IF q = p
        THEN [rec EXCEPT !.fresh = rec.id \notin DOMAIN components,
                         !.peers = IF InFlight(p, rec.id) = {} THEN 0
                                   ELSE IF \A r \in InFlight(p, rec.id) : task[r].op = "load"
                                        THEN Cardinality(InFlight(p, rec.id))
                                        ELSE 2,
                         !.pre = IF mode = "sequential" THEN Snapshot ELSE NoSnapshot]
        ELSE IF q \in InFlight(p, rec.id) /\ rec.op \in {"load", "unload"}
             THEN [task[q] EXCEPT !.peers = Joined(@, rec.op)]
             ELSE task[q]]

\* The directory entries the startup loader meets: <id>.wasm of each id, and one
\* file that is not a .wasm (a sidecar).
Entries == Ids \cup {"other"}

\* load_existing_components_async has not been called.
BootOff ==
    [phase |-> "off", limit |-> 0, seen |-> {}, hydrated |-> {},
     launch |-> [concurrency |-> [some |-> FALSE, n |-> 0], cpus |-> 0]]

\* No background future for a directory entry.
NoTask == [pc |-> "none", component |-> "", res |-> "", hooks |-> 0]

Finish(p, result) == [task EXCEPT ![p].pc = "done", ![p].res = result]

SetFile(id, kind, v) == [plugin_dir EXCEPT ![id][kind] = v]

Init ==
    /\ components = EmptyMap
    /\ registry = NewRegistry
    /\ policy_registry = EmptyMap
    /\ plugin_dir = [id \in Ids |-> NoFiles]
    /\ task = [p \in Procs |-> Idle]
    /\ ops = 0
    /\ mode = "concurrent"
    /\ out = NoOutput
    /\ live = [id \in Ids |-> NotLive]
    /\ boot = BootOff
    /\ bg = [e \in Entries |-> NoTask]

\* The same manager driven by one caller at a time.
InitSeq ==
    /\ components = EmptyMap
    /\ registry = NewRegistry
    /\ policy_registry = EmptyMap
    /\ plugin_dir = [id \in Ids |-> NoFiles]
    /\ task = [p \in Procs |-> Idle]
    /\ ops = 0
    /\ mode = "sequential"
    /\ out = NoOutput
    /\ live = [id \in Ids |-> NotLive]
    /\ boot = BootOff
    /\ bg = [e \in Entries |-> NoTask]

(* ---------------------------- load_component --------------------------- *)

\* Linker::instantiate_pre, then component_exports_to_tools (lines 567-568).
AfterCompile(t, m) ==
    IF m = "NoLink"
    THEN [t EXCEPT !.pc = "done", !.res = "Err:instantiate", !.component = m]
    ELSE [t EXCEPT !.pc = "register", !.component = m]

\* load_component_optimized, lines 955-980: the precompiled cache of this id
\* if there is one, else compile the downloaded bytes.
Compiled(t) ==
    LET cached == plugin_dir[t.id].cwasm
    IN IF cached # NoFile THEN AfterCompile(t, cached)
       ELSE IF t.resource = "NotWasm" THEN [t EXCEPT !.pc = "done", !.res = "Err:compile"]
       ELSE [t EXCEPT !.pc = "save_precompiled", !.component = t.resource]

\* lines 558-565: load_resource(uri), downloaded_resource.id(), then
\* load_component_optimized up to its first write.  Fetching touches nothing
\* shared, so the call's first step ends at the look into the cache.
LoadFetch(p, id, r) ==
    /\ MayStart(p)
    /\ ops' = ops + 1
    /\ LET started == StartTask(p, [Idle EXCEPT
                          !.op = "load", !.id = id, !.resource = r,
                          !.trace = IF r = "Unfetchable" THEN <<FileIo>>
                                    ELSE <<FileIo, Compilation>>])
       IN IF r = "Unfetchable"
          THEN task' = [started EXCEPT ![p].pc = "done", ![p].res = "Err:fetch"]
          ELSE task' = [started EXCEPT ![p] = Compiled(started[p])]
    /\ live' = [live EXCEPT ![id] = NotLive]
    /\ UNCHANGED <<components, registry, policy_registry, plugin_dir, mode, out, boot, bg>>

\* Faulty variant of LoadSavePrecompiled: the tools are registered as soon as the
\* component compiled, before Linker::instantiate_pre has accepted it.
LoadSavePrecompiledRegistering(p) ==
    /\ task[p].pc = "save_precompiled"
    /\ task[p].op = "load"
    /\ \E written \in BOOLEAN :
          plugin_dir' = IF written THEN SetFile(task[p].id, "cwasm", task[p].component)
                        ELSE plugin_dir
    /\ registry' = register_tools(unregister_component(registry, task[p].id), task[p].id,
                                  component_exports_to_tools(task[p].component))
    /\ task' = [task EXCEPT ![p] = AfterCompile(task[p], task[p].component)]
    /\ UNCHANGED <<components, policy_registry, ops, mode, out, boot, bg, live>>

\* save_precompiled_component (lines 983-988), best effort.
LoadSavePrecompiled(p) ==
    /\ task[p].pc = "save_precompiled"
    /\ task[p].op = "load"
    /\ \E written \in BOOLEAN :
          plugin_dir' = IF written THEN SetFile(task[p].id, "cwasm", task[p].component)
                        ELSE plugin_dir
    /\ task' = [task EXCEPT ![p] = AfterCompile([task[p] EXCEPT !.trace = Append(@, FileIo)],
                                                task[p].component)]
    /\ UNCHANGED <<components, registry, policy_registry, ops, mode, out, boot, bg, live>>

\* Faulty variant of LoadRegister: register_tools without the unregister_component
\* before it.
LoadRegisterAppending(p) ==
    /\ task[p].pc = "register"
    /\ task[p].op = "load"
    /\ registry' = register_tools(registry, task[p].id,
                                  component_exports_to_tools(task[p].component))
    /\ task' = [task EXCEPT ![p].pc = "copy"]
    /\ UNCHANGED <<components, policy_registry, plugin_dir, ops, mode, out, boot, bg, live>>

\* Faulty variant of LoadRegister: the registry guard lives on after the block.
LoadRegisterKeepingLock(p) ==
    /\ task[p].pc = "register"
    /\ task[p].op = "load"
    /\ registry' = register_tools(unregister_component(registry, task[p].id), task[p].id,
                                  component_exports_to_tools(task[p].component))
    /\ task' = [task EXCEPT ![p].pc = "copy",
                            ![p].trace = @ \o <<Acquire("registry"), InMemory>>]
    /\ UNCHANGED <<components, policy_registry, plugin_dir, ops, mode, out, boot, bg, live>>

\* lines 570-574: one write lock, unregister then register.
LoadRegister(p) ==
    /\ task[p].pc = "register"
    /\ task[p].op = "load"
    /\ registry' = register_tools(unregister_component(registry, task[p].id), task[p].id,
                                  component_exports_to_tools(task[p].component))
    /\ task' = [task EXCEPT ![p].pc = "copy", ![p].trace = @ \o Under("registry")]
    /\ UNCHANGED <<components, policy_registry, plugin_dir, ops, mode, out, boot, bg, live>>

\* lines 576-584: copy_to(plugin_dir), and the rollback when it fails.
LoadCopy(p) ==
    /\ task[p].pc = "copy"
    /\ \E copied \in BOOLEAN :
          IF copied
          THEN /\ plugin_dir' = SetFile(task[p].id, "wasm", task[p].resource)
               /\ registry' = registry
               /\ task' = [task EXCEPT ![p].pc = "save_metadata",
                                       ![p].trace = Append(@, FileIo)]
          ELSE /\ plugin_dir' = plugin_dir
               /\ registry' = unregister_component(registry, task[p].id)
               /\ task' = [task EXCEPT ![p].pc = "done", ![p].res = "Err:copy",
                                       ![p].trace = Append(@, FileIo) \o Under("registry")]
    /\ UNCHANGED <<components, policy_registry, ops, mode, out, boot, bg, live>>

\* The size, the modification time (seconds) and the SHA-256 of a file version;
\* a content names one version of a file, and two versions the manager wrote are
\* taken to differ in each attribute.
FileSize(content) == <<"len", content>>

MTime(content) == <<"mtime", content>>

Sha256(content) == <<"sha256", content>>

\* create_validation_stamp (lines 800-832) of a file, with or without its hash.
create_validation_stamp(content, compute_hash) ==
    [file_size |-> FileSize(content), mtime |-> MTime(content),
     content_hash |-> IF compute_hash THEN Sha256(content) ELSE NoHash]

\* validate_stamp (lines 835-872) of the file now at the path.
validate_stamp(content, stamp) ==
    /\ content # NoFile
    /\ FileSize(content) = stamp.file_size
    /\ MTime(content) = stamp.mtime
    /\ stamp.content_hash # NoHash => Sha256(content) = stamp.content_hash

\* ComponentMetadata (lines 881-894) as save_component_metadata writes it.
ComponentMetadata(tools, stamp) ==
    [exists |-> TRUE, parses |-> TRUE, tools |-> tools, validation_stamp |-> stamp]

\* lines 586-596: stamp the module now at <id>.wasm and write <id>.metadata.json;
\* nothing is written when the stamp cannot be made, a failed write is a warning.
SaveMetadataFor(id, tools, written) ==
    IF plugin_dir[id].wasm # NoFile /\ written
    THEN SetFile(id, "metadata",
                 ComponentMetadata(tools, create_validation_stamp(plugin_dir[id].wasm, FALSE)))
    ELSE plugin_dir

\* Faulty variant of LoadSaveMetadata: a sidecar that cannot be written ends
\* the load.
LoadSaveMetadataOrFail(p) ==
    /\ task[p].pc = "save_metadata"
    /\ task[p].op = "load"
    /\ \E written \in BOOLEAN :
          /\ plugin_dir' = SaveMetadataFor(task[p].id,
                               component_exports_to_tools(task[p].component), written)
          /\ task' = IF written
                     THEN [task EXCEPT ![p].pc = "insert", ![p].trace = Append(@, FileIo)]
                     ELSE [task EXCEPT ![p].pc = "done", ![p].res = "Err:io",
                                       ![p].trace = Append(@, FileIo)]
    /\ UNCHANGED <<components, registry, policy_registry, ops, mode, out, boot, bg, live>>

LoadSaveMetadata(p) ==
    /\ task[p].pc = "save_metadata"
    /\ task[p].op = "load"
    /\ \E written \in BOOLEAN :
          plugin_dir' = SaveMetadataFor(task[p].id,
                                        component_exports_to_tools(task[p].component), written)
    /\ task' = [task EXCEPT ![p].pc = "insert", ![p].trace = Append(@, FileIo)]
    /\ UNCHANGED <<components, registry, policy_registry, ops, mode, out, boot, bg, live>>

ComponentInstance(m) == [component |-> m, instance_pre |-> m]

\* HashMap::insert(...).map(|_| Replaced).unwrap_or(New)
LoadResult(comps, id) == IF id \in DOMAIN comps THEN "Replaced" ELSE "New"

\* Faulty variant of LoadInsert: the result is computed but the instance is
\* not put into the component map.
LoadInsertNothing(p) ==
    /\ task[p].pc = "insert"
    /\ task[p].op = "load"
    /\ task' = [task EXCEPT ![p].pc = "attach_policy",
                            ![p].res = LoadResult(components, task[p].id)]
    /\ UNCHANGED <<components, registry, policy_registry, plugin_dir, ops, mode, out, boot, bg, live>>

\* lines 598-610.
LoadInsert(p) ==
    /\ task[p].pc = "insert"
    /\ task[p].op = "load"
    /\ components' = Put(components, task[p].id, ComponentInstance(task[p].component))
    /\ task' = [task EXCEPT ![p].pc = "attach_policy",
                            ![p].res = LoadResult(components, task[p].id),
                            ![p].trace = @ \o Under("components")]
    /\ UNCHANGED <<registry, policy_registry, plugin_dir, ops, mode, out, boot, bg, live>>

\* The co-located policy block (lines 614-652, 494-524, 1301-1332): the template
\* is inserted only when the file exists, is read, parses and builds.
AttachColocatedPolicy(reg, id) ==
    IF plugin_dir[id].policy = "ok"
    THEN Put(reg, id, WasiStateTemplate(plugin_dir[id].policy))
    ELSE reg

LoadAttachPolicy(p) ==
    /\ task[p].pc = "attach_policy"
    /\ task[p].op = "load"
    /\ policy_registry' = AttachColocatedPolicy(policy_registry, task[p].id)
    /\ task' = [task EXCEPT ![p].pc = "done",
                            ![p].trace = IF plugin_dir[task[p].id].policy = "ok"
                                         THEN Append(@, FileIo) \o Under("policy_registry")
                                         ELSE Append(@, FileIo)]
    /\ live' = [live EXCEPT ![task[p].id] =
                    IF task[p].peers = 0
                    THEN Live(component_exports_to_tools(task[p].component))
                    ELSE NotLive]
    /\ UNCHANGED <<components, registry, plugin_dir, ops, mode, out, boot, bg>>

(* --------------------------- unload_component -------------------------- *)

\* Faulty variant of UnloadStart: the component map entry is dropped before the
\* files are removed.
UnloadStartForgetting(p, id) ==
    /\ MayStart(p)
    /\ ops' = ops + 1
    /\ task' = [StartTask(p, [Idle EXCEPT !.op = "unload", !.id = id])
                 EXCEPT ![p].pc = "remove", ![p].idx = 1]
    /\ live' = [live EXCEPT ![id] = NotLive]
    /\ components' = Remove(components, id)
    /\ UNCHANGED <<registry, policy_registry, plugin_dir, mode, out, boot, bg>>

\* lines 696-698: the call starts; the first file is removed next.
UnloadStart(p, id) ==
    /\ MayStart(p)
    /\ ops' = ops + 1
    /\ task' = [StartTask(p, [Idle EXCEPT !.op = "unload", !.id = id])
                 EXCEPT ![p].pc = "remove", ![p].idx = 1]
    /\ live' = [live EXCEPT ![id] = NotLive]
    /\ UNCHANGED <<components, registry, policy_registry, plugin_dir, mode, out, boot, bg>>

\* After the idx-th file: the next file, or the in-memory cleanup.
AfterRemove(p) ==
    IF task[p].idx < Len(UnloadOrder)
    THEN [task EXCEPT ![p].idx = task[p].idx + 1, ![p].trace = Append(@, FileIo)]
    ELSE [task EXCEPT ![p].pc = "forget_component", ![p].trace = Append(@, FileIo)]

\* remove_file_if_exists (lines 659-690) on the idx-th file of lines 700-719:
\* removed, already absent (NotFound), or another I/O error, which ends unload.
UnloadRemoveFile(p) ==
    /\ task[p].pc = "remove"
    /\ LET id == task[p].id
           kind == UnloadOrder[task[p].idx]
       IN IF ~FileExists(id, kind)
          THEN /\ plugin_dir' = plugin_dir
               /\ task' = AfterRemove(p)
          ELSE \E removed \in BOOLEAN :
                 IF removed
                 THEN /\ plugin_dir' = SetFile(id, kind, Absent(kind))
                      /\ task' = AfterRemove(p)
                 ELSE /\ plugin_dir' = plugin_dir
                      /\ task' = [task EXCEPT ![p].pc = "done", ![p].res = "Err:io",
                                              ![p].trace = Append(@, FileIo)]
    /\ UNCHANGED <<components, registry, policy_registry, ops, mode, out, boot, bg, live>>

\* line 722.
UnloadForgetComponent(p) ==
    /\ task[p].pc = "forget_component"
    /\ components' = Remove(components, task[p].id)
    /\ task' = [task EXCEPT ![p].pc = "unregister", ![p].trace = @ \o Under("components")]
    /\ UNCHANGED <<registry, policy_registry, plugin_dir, ops, mode, out, boot, bg, live>>

\* line 723.
UnloadUnregister(p) ==
    /\ task[p].pc = "unregister"
    /\ registry' = unregister_component(registry, task[p].id)
    /\ task' = [task EXCEPT ![p].pc = "cleanup_policy", ![p].trace = @ \o Under("registry")]
    /\ UNCHANGED <<components, policy_registry, plugin_dir, ops, mode, out, boot, bg, live>>

\* cleanup_policy_registry (policy_internal.rs): drop the id's template.
cleanup_policy_registry(reg, id) == Remove(reg, id)

\* line 724.
UnloadCleanupPolicy(p) ==
    /\ task[p].pc = "cleanup_policy"
    /\ policy_registry' = cleanup_policy_registry(policy_registry, task[p].id)
    /\ task' = [task EXCEPT ![p].pc = "done", ![p].res = "Ok",
                            ![p].trace = @ \o Under("policy_registry")]
    /\ UNCHANGED <<components, registry, plugin_dir, ops, mode, out, boot, bg, live>>

(* ------------------------ execute_component_call ----------------------- *)

\* The function names callers execute.
FunctionNames == ToolNames

\* lines 1022-1025: get_component(component_id), or "Component not found".
ExecGetComponent(p, id, tool) ==
    /\ MayStart(p)
    /\ ops' = ops + 1
    /\ LET started == StartTask(p, [Idle EXCEPT !.op = "execute", !.id = id, !.tool = tool,
                                                !.trace = Under("components")])
       IN IF id \in DOMAIN components
          THEN task' = [started EXCEPT ![p].pc = "exec_state",
                                       ![p].component = components[id].instance_pre]
          ELSE task' = [started EXCEPT ![p].pc = "done",
                                       ![p].res = "Err:component_not_found"]
    /\ UNCHANGED <<components, registry, policy_registry, plugin_dir, mode, out, boot, bg, live>>

\* policy_template.build() and Store::new: a fresh host state made from the
\* template, owned by the store.
BuildStore(template) == [made |-> TRUE, template |-> template, writes |-> 0]

\* get_wasi_state_for_component (lines 998-1011): the component's template, or
\* the default one.
PolicyTemplateFor(reg, id) == IF id \in DOMAIN reg THEN reg[id] ELSE DefaultPolicyTemplate

\* lines 1027-1042.
ExecBuildState(p) ==
    /\ task[p].pc = "exec_state"
    /\ task' = [task EXCEPT ![p].pc = "exec_instantiate",
                            ![p].store = BuildStore(PolicyTemplateFor(policy_registry,
                                                                      task[p].id)),
                            ![p].trace = @ \o Under("policy_registry")]
    /\ UNCHANGED <<components, registry, policy_registry, plugin_dir, ops, mode, out, boot, bg, live>>

\* line 1044: instance_pre.instantiate_async(&mut store).
ExecInstantiate(p) ==
    /\ task[p].pc = "exec_instantiate"
    /\ task' = [task EXCEPT ![p].pc = "exec_lookup", ![p].trace = Append(@, GuestExecution)]
    /\ UNCHANGED <<components, registry, policy_registry, plugin_dir, ops, mode, out, boot, bg, live>>

\* lines 1047-1053: the function identifier of the tool name, or "Unknown tool name".
ExecLookup(p) ==
    /\ task[p].pc = "exec_lookup"
    /\ IF get_function_identifier(registry, task[p].tool) = NoIdentifier
       THEN task' = [task EXCEPT ![p].pc = "done", ![p].res = "Err:unknown_tool",
                                 ![p].trace = @ \o Under("registry")]
       ELSE task' = [task EXCEPT ![p].pc = "exec_call",
                                 ![p].function_id =
                                     get_function_identifier(registry, task[p].tool),
                                 ![p].trace = @ \o Under("registry")]
    /\ UNCHANGED <<components, registry, policy_registry, plugin_dir, ops, mode, out, boot, bg, live>>

\* The instance of a component exports the functions of that component only.
Exports(m, identifier) ==
    \E i \in DOMAIN component_exports_to_tools(m) :
        component_exports_to_tools(m)[i].identifier = identifier

\* The guest's effect on the host state of its store.
GuestWrites(store, n) == [store EXCEPT !.writes = n]

\* A call whose guest writes to host state that every running call uses.
ExecCallOnSharedState(p) ==
    /\ task[p].pc = "exec_call"
    /\ \E n \in {1, 2} :
          IF Exports(task[p].component, task[p].function_id)
          THEN task' = [q \in Procs |->
                           IF q = p
                           THEN [task[p] EXCEPT !.pc = "done", !.res = "Ok",
                                                !.store = GuestWrites(task[p].store, n)]
                           ELSE IF task[q].store.made
                                THEN [task[q] EXCEPT !.store = GuestWrites(task[q].store, n)]
                                ELSE task[q]]
          ELSE task' = Finish(p, "Err:function_not_found")
    /\ UNCHANGED <<components, registry, policy_registry, plugin_dir, ops, mode, out, boot, bg, live>>

\* lines 1055-1107: find the export in the instance and call it; the guest
\* changes the host state of its store.
ExecCall(p) ==
    /\ task[p].pc = "exec_call"
    /\ \E n \in {1, 2} :
          IF Exports(task[p].component, task[p].function_id)
          THEN task' = [task EXCEPT ![p].pc = "done", ![p].res = "Ok",
                                    ![p].store = GuestWrites(task[p].store, n),
                                    ![p].trace = Append(@, GuestExecution)]
          ELSE task' = Finish(p, "Err:function_not_found")
    /\ UNCHANGED <<components, registry, policy_registry, plugin_dir, ops, mode, out, boot, bg, live>>

(* ------------------------- handle_component_call ----------------------- *)

\* The names list_tools advertises: the "name" of each schema it returns.
Advertised(reg) == {list_tools(reg)[i][3] : i \in DOMAIN list_tools(reg)}

\* The startup loader runs and has not finished with this component.
StillLoading(id) == boot.phase \in {"hydrate", "loading"} /\ bg[id].pc # "done"

\* components.rs lines 108-113: get_component_id_for_tool(method_name); the id
\* it gives is then executed, an error ends the call.
CallLookup(p, tool) ==
    /\ MayStart(p)
    /\ ops' = ops + 1
    /\ LET found == get_component_id_for_tool(registry, tool)
           started == StartTask(p, [Idle EXCEPT
                          !.op = "call", !.tool = tool, !.id = found.id,
                          !.trace = Under("registry"),
                          !.listed = tool \in Advertised(registry),
                          !.early = \E i \in DOMAIN found.ids : StillLoading(found.ids[i])])
       IN IF found.ok
          THEN task' = [started EXCEPT ![p].pc = "call_execute"]
          ELSE task' = [started EXCEPT ![p].pc = "done",
                                       ![p].res = IF found.err = "Tool not found"
                                                  THEN "Err:tool_not_found"
                                                  ELSE "Err:ambiguous_tool"]
    /\ UNCHANGED <<components, registry, policy_registry, plugin_dir, mode, out, boot, bg, live>>

\* components.rs lines 119-121 into lib.rs lines 1022-1025: execute_component_call
\* starts with get_component.
CallGetComponent(p) ==
    /\ task[p].pc = "call_execute"
    /\ IF task[p].id \in DOMAIN components
       THEN task' = [task EXCEPT ![p].pc = "exec_state",
                                 ![p].component = components[task[p].id].instance_pre,
                                 ![p].trace = @ \o Under("components")]
       ELSE task' = [task EXCEPT ![p].pc = "done", ![p].res = "Err:component_not_found",
                                 ![p].trace = @ \o Under("components")]
    /\ UNCHANGED <<components, registry, policy_registry, plugin_dir, ops, mode, out, boot, bg, live>>

(* ------------- handle_load_component, handle_unload_component ---------- *)

\* load_component or unload_component has returned Ok to the handler.
Succeeded(t) ==
    \/ t.op = "load" /\ t.res \in {"New", "Replaced"}
    \/ t.op = "unload" /\ t.res = "Ok"

\* The handler has the result of the manager and has not returned.
InHandler(p) ==
    /\ task[p].pc = "done"
    /\ task[p].op \in {"load", "unload"}
    /\ task[p].reply = NoReply

\* A handler that notifies whatever the manager returned.
HandlerNotifyAlways(p) ==
    /\ InHandler(p)
    /\ task[p].notified = 0
    /\ task' = [task EXCEPT ![p].notified = 1]
    /\ UNCHANGED <<components, registry, policy_registry, plugin_dir, ops, mode, out, boot, bg, live>>

\* components.rs lines 57-58 and 88-89, handle_tool_list_notification (lines
\* 348-365): on Ok the handler calls peer.notify_tool_list_changed(); whether
\* the peer took it is only logged.
HandlerNotify(p) ==
    /\ InHandler(p)
    /\ Succeeded(task[p])
    /\ task[p].notified = 0
    /\ task' = [task EXCEPT ![p].notified = 1]
    /\ UNCHANGED <<components, registry, policy_registry, plugin_dir, ops, mode, out, boot, bg, live>>

\* components.rs lines 59, 61-68, 90, 92-95: the success result after the
\* notification; Err for a failed load; a result with is_error for a failed
\* unload.
HandlerReply(p) ==
    /\ InHandler(p)
    /\ Succeeded(task[p]) => task[p].notified = 1
    /\ task' = [task EXCEPT ![p].reply =
                    IF Succeeded(task[p]) THEN "Ok(success)"
                    ELSE IF task[p].op = "load" THEN "Err"
                    ELSE "Ok(is_error)"]
    /\ UNCHANGED <<components, registry, policy_registry, plugin_dir, ops, mode, out, boot, bg, live>>

\* The client has the handler's reply.
HandlerReturn(p) ==
    /\ task[p].pc = "done"
    /\ task[p].reply # NoReply
    /\ task' = [task EXCEPT ![p] = Idle]
    /\ UNCHANGED <<components, registry, policy_registry, plugin_dir, ops, mode, out, boot, bg, live>>

(* ------------------ load_existing_components_async --------------------- *)

\* The concurrency argument: None, or Some(n).
NoOverride == [some |-> FALSE, n |-> 0]

Some(n) == [some |-> TRUE, n |-> n]

\* How the loader is launched: the caller's override and num_cpus::get().
Launches ==
    {[concurrency |-> NoOverride, cpus |-> 2],
     [concurrency |-> NoOverride, cpus |-> 8],
     [concurrency |-> Some(1), cpus |-> 8]}

Min(a, b) == IF a < b THEN a ELSE b

\* line 1124.
Concurrency(launch) ==
    IF launch.concurrency.some THEN launch.concurrency.n ELSE Min(launch.cpus, 4)

\* lines 1113-1122: the call starts, phase 1 is next.
StartBackground(launch) ==
    /\ mode = "startup"
    /\ boot.phase = "off"
    /\ boot' = [boot EXCEPT !.phase = "hydrate", !.limit = Concurrency(launch),
                            !.launch = launch]
    /\ UNCHANGED <<components, registry, policy_registry, plugin_dir, task, ops, mode, out, live, bg>>

\* A sidecar taken for valid without a look at its stamp.
SidecarValidUnstamped(id) ==
    /\ plugin_dir[id].metadata.exists
    /\ plugin_dir[id].metadata.parses

\* lines 1184-1186: the sidecar is there, parses, and its stamp matches the
\* <id>.wasm now in the directory.
SidecarValid(id) ==
    /\ plugin_dir[id].metadata.exists
    /\ plugin_dir[id].metadata.parses
    /\ validate_stamp(plugin_dir[id].wasm, plugin_dir[id].metadata.validation_stamp)

\* populate_registry_from_metadata, one iteration of its loop (lines 1168-1213)
\* on a .wasm entry: the tools of a valid sidecar are registered.
HydrateEntry(id) ==
    /\ boot.phase = "hydrate"
    /\ id \notin boot.seen
    /\ FileExists(id, "wasm")
    /\ IF SidecarValid(id)
       THEN /\ registry' = register_tools(registry, id, plugin_dir[id].metadata.tools)
            /\ boot' = [boot EXCEPT !.seen = @ \cup {id}, !.hydrated = @ \cup {id}]
       ELSE /\ registry' = registry
            /\ boot' = [boot EXCEPT !.seen = @ \cup {id}]
    /\ UNCHANGED <<components, policy_registry, plugin_dir, task, ops, mode, out, live, bg>>

\* A file of the plugin directory that is not a .wasm.
OtherFiles ==
    \E id \in Ids : \E kind \in {"cwasm", "metadata", "policy", "policy_meta"} :
        FileExists(id, kind)

\* The entry is in the directory listing.
Listed(e) == IF e = "other" THEN OtherFiles ELSE FileExists(e, "wasm")

\* lines 1131-1155: phase 1 has met every entry; one future per directory entry,
\* each behind the semaphore.
SpawnLoaders ==
    /\ boot.phase = "hydrate"
    /\ \A id \in Ids : FileExists(id, "wasm") => id \in boot.seen
    /\ boot' = [boot EXCEPT !.phase = "loading"]
    /\ bg' = [e \in Entries |-> IF Listed(e) THEN [NoTask EXCEPT !.pc = "waiting"] ELSE NoTask]
    /\ UNCHANGED <<components, registry, policy_registry, plugin_dir, task, ops, mode, out, live>>

\* The futures that hold a permit of the semaphore.
Holders == {e \in Entries : bg[e].pc \notin {"none", "waiting", "done"}}

\* An acquire that never waits.
AcquirePermitUnbounded(e) ==
    /\ bg[e].pc = "waiting"
    /\ bg' = [bg EXCEPT ![e].pc = "entry"]
    /\ UNCHANGED <<components, registry, policy_registry, plugin_dir, task, ops, mode, out, live, boot>>

\* line 1141: semaphore.acquire().
AcquirePermit(e) ==
    /\ bg[e].pc = "waiting"
    /\ Cardinality(Holders) < boot.limit
    /\ bg' = [bg EXCEPT ![e].pc = "entry"]
    /\ UNCHANGED <<components, registry, policy_registry, plugin_dir, task, ops, mode, out, live, boot>>

\* A future that calls the hook whatever the entry's load returned.
EndEntryAlwaysNotifying(e, result) ==
    [bg EXCEPT ![e].pc = "done", ![e].res = result, ![e].hooks = @ + 1]

\* The future ends with what load_component_from_entry_optimized returned
\* (lines 1143-1152): the hook is called on Ok(true) only; the permit is dropped.
EndEntry(e, result) ==
    [bg EXCEPT ![e].pc = "done", ![e].res = result,
               ![e].hooks = IF result = "Ok(true)" THEN @ + 1 ELSE @]

\* Linker::instantiate_pre (lines 1260-1263), then on to the registry.
EntryCompiled(e, m) ==
    IF m = "NoLink" THEN EndEntry(e, "Err")
    ELSE [bg EXCEPT ![e].pc = "register", ![e].component = m]

\* load_component_from_entry_optimized, lines 1227-1258: not a .wasm file, or
\* already in the component map: Ok(false); else the precompiled cache or a
\* fresh compilation of the entry.
LoadEntry(e) ==
    /\ bg[e].pc = "entry"
    /\ IF e = "other" THEN bg' = EndEntry(e, "Ok(false)")
       ELSE IF ~FileExists(e, "wasm") THEN bg' = EndEntry(e, "Err")
       ELSE IF e \in DOMAIN components THEN bg' = EndEntry(e, "Ok(false)")
       ELSE IF plugin_dir[e].cwasm # NoFile THEN bg' = EntryCompiled(e, plugin_dir[e].cwasm)
       ELSE IF plugin_dir[e].wasm = "NotWasm" THEN bg' = EndEntry(e, "Err")
       ELSE bg' = [bg EXCEPT ![e].pc = "save_precompiled", ![e].component = plugin_dir[e].wasm]
    /\ UNCHANGED <<components, registry, policy_registry, plugin_dir, task, ops, mode, out, live, boot>>

\* save_precompiled_component (lines 983-988), best effort, then instantiate_pre.
EntrySavePrecompiled(e) ==
    /\ bg[e].pc = "save_precompiled"
    /\ \E written \in BOOLEAN :
          plugin_dir' = IF written THEN SetFile(e, "cwasm", bg[e].component) ELSE plugin_dir
    /\ bg' = EntryCompiled(e, bg[e].component)
    /\ UNCHANGED <<components, registry, policy_registry, task, ops, mode, out, live, boot>>

\* lines 1275-1282: register the tools unless the id is in component_map.
EntryRegister(e) ==
    /\ bg[e].pc = "register"
    /\ registry' = IF e \in DOMAIN registry.component_map THEN registry
                   ELSE register_tools(registry, e, component_exports_to_tools(bg[e].component))
    /\ bg' = [bg EXCEPT ![e].pc = "insert"]
    /\ UNCHANGED <<components, policy_registry, plugin_dir, task, ops, mode, out, live, boot>>

\* lines 1285-1288.
EntryInsert(e) ==
    /\ bg[e].pc = "insert"
    /\ components' = Put(components, e, ComponentInstance(bg[e].component))
    /\ bg' = [bg EXCEPT ![e].pc = "save_metadata"]
    /\ UNCHANGED <<registry, policy_registry, plugin_dir, task, ops, mode, out, live, boot>>

\* lines 1291-1298.
EntrySaveMetadata(e) ==
    /\ bg[e].pc = "save_metadata"
    /\ \E written \in BOOLEAN :
          plugin_dir' = SaveMetadataFor(e, component_exports_to_tools(bg[e].component), written)
    /\ bg' = [bg EXCEPT ![e].pc = "attach_policy"]
    /\ UNCHANGED <<components, registry, policy_registry, task, ops, mode, out, live, boot>>

\* lines 1301-1335 and 1144-1148: the co-located policy, Ok(true), the hook.
EntryAttachPolicy(e) ==
    /\ bg[e].pc = "attach_policy"
    /\ policy_registry' = AttachColocatedPolicy(policy_registry, e)
    /\ bg' = EndEntry(e, "Ok(true)")
    /\ UNCHANGED <<components, registry, plugin_dir, task, ops, mode, out, live, boot>>

\* lines 1158-1160: join_all has every future.
FinishBackground ==
    /\ boot.phase = "loading"
    /\ \A e \in Entries : bg[e].pc \in {"none", "done"}
    /\ boot' = [boot EXCEPT !.phase = "finished"]
    /\ UNCHANGED <<components, registry, policy_registry, plugin_dir, task, ops, mode, out, live, bg>>

(* ------------------------------ environment ---------------------------- *)

\* The caller takes the result of a finished call.
Return(p) ==
    /\ task[p].pc = "done"
    /\ task' = [task EXCEPT ![p] = Idle]
    /\ UNCHANGED <<components, registry, policy_registry, plugin_dir, ops, mode, out, boot, bg, live>>

\* The operator writes, replaces or deletes <id>.policy.yaml in the plugin
\* directory: at any moment beside concurrent callers, between two calls of
\* sequential ones.
OperatorEditsPolicy(id, content) ==
    /\ ops < Budget
    /\ mode = "sequential" => \A q \in Procs : task[q].pc = "idle"
    /\ ops' = ops + 1
    /\ plugin_dir[id].policy # content
    /\ plugin_dir' = SetFile(id, "policy", content)
    /\ UNCHANGED <<components, registry, policy_registry, task, mode, out, boot, bg, live>>

(* ------------------------------ specification -------------------------- *)

Next ==
    \/ \E p \in Procs, uri \in Uris : LoadFetch(p, uri[1], uri[2])
    \/ \E p \in Procs : LoadSavePrecompiled(p)
    \/ \E p \in Procs : LoadRegister(p)
    \/ \E p \in Procs : LoadCopy(p)
    \/ \E p \in Procs : LoadSaveMetadata(p)
    \/ \E p \in Procs : LoadInsert(p)
    \/ \E p \in Procs : LoadAttachPolicy(p)
    \/ \E p \in Procs, id \in Ids : UnloadStart(p, id)
    \/ \E p \in Procs : UnloadRemoveFile(p)
    \/ \E p \in Procs : UnloadForgetComponent(p)
    \/ \E p \in Procs : UnloadUnregister(p)
    \/ \E p \in Procs : UnloadCleanupPolicy(p)
    \/ \E p \in Procs : Return(p)
    \/ \E id \in PolicyIds, content \in PolicyFiles \cup {NoFile} :
          OperatorEditsPolicy(id, content)

Spec == Init /\ [][Next]_vars

SeqSpec == InitSeq /\ [][Next]_vars

\* Loads, unloads and operator edits, with execute calls among them.
NextExec ==
    \/ Next
    \/ \E p \in Procs, id \in Ids, tool \in FunctionNames : ExecGetComponent(p, id, tool)
    \/ \E p \in Procs : ExecBuildState(p)
    \/ \E p \in Procs : ExecInstantiate(p)
    \/ \E p \in Procs : ExecLookup(p)
    \/ \E p \in Procs : ExecCall(p)

\* One caller at a time, executing as well.
ExecSeqSpec == InitSeq /\ [][NextExec]_vars

\* The protocol server: each load and unload request goes through its handler.
NextHandler ==
    \/ \E p \in Procs, uri \in Uris : LoadFetch(p, uri[1], uri[2])
    \/ \E p \in Procs : LoadSavePrecompiled(p)
    \/ \E p \in Procs : LoadRegister(p)
    \/ \E p \in Procs : LoadCopy(p)
    \/ \E p \in Procs : LoadSaveMetadata(p)
    \/ \E p \in Procs : LoadInsert(p)
    \/ \E p \in Procs : LoadAttachPolicy(p)
    \/ \E p \in Procs, id \in Ids : UnloadStart(p, id)
    \/ \E p \in Procs : UnloadRemoveFile(p)
    \/ \E p \in Procs : UnloadForgetComponent(p)
    \/ \E p \in Procs : UnloadUnregister(p)
    \/ \E p \in Procs : UnloadCleanupPolicy(p)
    \/ \E p \in Procs : HandlerNotify(p)
    \/ \E p \in Procs : HandlerReply(p)
    \/ \E p \in Procs : HandlerReturn(p)

HandlerSpec == InitSeq /\ [][NextHandler]_vars

\* What a plugin directory left by earlier runs holds for an id when the manager
\* starts: the module with its cache and a sidecar of the same module (its stamp
\* without or with a content hash), the module alone, the module replaced since
\* the sidecar and the cache were written, a sidecar that is not JSON, a sidecar
\* whose stamp has the size and the time of the module but another hash, or a
\* cached module that cannot be linked.
Cached(m, hashed, policy) ==
    [wasm |-> m, cwasm |-> m,
     metadata |-> ComponentMetadata(component_exports_to_tools(m),
                                    create_validation_stamp(m, hashed)),
     policy |-> policy, policy_meta |-> NoFile]

Bare(m) == [NoFiles EXCEPT !.wasm = m]

Replaced(m, old) == [Cached(old, FALSE, NoFile) EXCEPT !.wasm = m]

Unparseable(m) == [Cached(m, FALSE, NoFile) EXCEPT !.metadata.parses = FALSE]

OtherHash(m, old) ==
    [Cached(m, TRUE, NoFile) EXCEPT !.metadata.validation_stamp.content_hash = Sha256(old)]

StartDirs ==
    [c1 : {Cached("ModA", FALSE, "ok"), Cached("ModA", TRUE, NoFile), Bare("ModA"),
           Replaced("ModA", "ModB"), Unparseable("ModA"), OtherHash("ModA", "ModB"),
           Cached("NoLink", FALSE, NoFile), Bare("NotWasm")},
     c2 : {NoFiles, Cached("ModB", FALSE, NoFile)}]

\* new_unloaded on a directory earlier runs left: nothing is in memory, and
\* load_existing_components_async has not been called yet.
InitStart ==
    /\ components = EmptyMap
    /\ registry = NewRegistry
    /\ policy_registry = EmptyMap
    /\ plugin_dir \in StartDirs
    /\ task = [p \in Procs |-> Idle]
    /\ ops = 0
    /\ mode = "startup"
    /\ out = NoOutput
    /\ live = [id \in Ids |-> NotLive]
    /\ boot = BootOff
    /\ bg = [e \in Entries |-> NoTask]

\* The startup loader, and beside it one protocol client that loads module B as
\* c1 and calls tools.
NextStart ==
    \/ \E launch \in Launches : StartBackground(launch)
    \/ \E id \in Ids : HydrateEntry(id)
    \/ SpawnLoaders
    \/ \E e \in Entries : AcquirePermit(e)
    \/ \E e \in Entries : LoadEntry(e)
    \/ \E e \in Entries : EntrySavePrecompiled(e)
    \/ \E e \in Entries : EntryRegister(e)
    \/ \E e \in Entries : EntryInsert(e)
    \/ \E e \in Entries : EntrySaveMetadata(e)
    \/ \E e \in Entries : EntryAttachPolicy(e)
    \/ FinishBackground
    \/ \E p \in Procs, tool \in ToolNames : CallLookup(p, tool)
    \/ \E p \in Procs : CallGetComponent(p)
    \/ \E p \in Procs : ExecBuildState(p)
    \/ \E p \in Procs : ExecInstantiate(p)
    \/ \E p \in Procs : ExecLookup(p)
    \/ \E p \in Procs : ExecCall(p)
    \/ \E p \in Procs : LoadFetch(p, "c1", "ModB")
    \/ \E p \in Procs : LoadSavePrecompiled(p)
    \/ \E p \in Procs : LoadRegister(p)
    \/ \E p \in Procs : LoadCopy(p)
    \/ \E p \in Procs : LoadSaveMetadata(p)
    \/ \E p \in Procs : LoadInsert(p)
    \/ \E p \in Procs : LoadAttachPolicy(p)
    \/ \E p \in Procs : Return(p)

StartSpec == InitStart /\ [][NextStart]_vars

\* A manager in which earlier calls loaded module A as c1, with or without a
\* policy file beside it, and module B as c2; every call has returned.
InitLoaded ==
    /\ components = Put(Put(EmptyMap, "c1", ComponentInstance("ModA")),
                        "c2", ComponentInstance("ModB"))
    /\ registry = register_tools(register_tools(NewRegistry, "c1",
                                                component_exports_to_tools("ModA")),
                                 "c2", component_exports_to_tools("ModB"))
    /\ \E policy \in {"ok", NoFile} :
          /\ plugin_dir = [c1 |-> Cached("ModA", FALSE, policy),
                           c2 |-> Cached("ModB", FALSE, NoFile)]
          /\ policy_registry = IF policy = "ok"
                               THEN Put(EmptyMap, "c1", WasiStateTemplate("ok"))
                               ELSE EmptyMap
    /\ task = [p \in Procs |-> Idle]
    /\ ops = 0
    /\ mode = "concurrent"
    /\ out = NoOutput
    /\ live = [id \in Ids |-> Live(component_exports_to_tools(components[id].component))]
    /\ boot = BootOff
    /\ bg = [e \in Entries |-> NoTask]

\* Concurrent callers that execute tools and unload c1.
NextRun ==
    \/ \E p \in Procs, id \in Ids, tool \in FunctionNames : ExecGetComponent(p, id, tool)
    \/ \E p \in Procs : ExecBuildState(p)
    \/ \E p \in Procs : ExecInstantiate(p)
    \/ \E p \in Procs : ExecLookup(p)
    \/ \E p \in Procs : ExecCall(p)
    \/ \E p \in Procs : UnloadStart(p, "c1")
    \/ \E p \in Procs : UnloadRemoveFile(p)
    \/ \E p \in Procs : UnloadForgetComponent(p)
    \/ \E p \in Procs : UnloadUnregister(p)
    \/ \E p \in Procs : UnloadCleanupPolicy(p)
    \/ \E p \in Procs : Return(p)

RunSpec == InitLoaded /\ [][NextRun]_vars

(* -------------------------------- properties --------------------------- *)

Range(s) == {s[i] : i \in DOMAIN s}

\* The calls that have returned and whose result the caller has not taken yet.
Returned(p, op) == task[p].pc = "done" /\ task[p].op = op

LoadOk(p) == Returned(p, "load") /\ task[p].res \in {"New", "Replaced"}

\* The entries the registry holds for a component under a tool name.
EntriesOf(reg, id, name) ==
    IF name \in DOMAIN reg.tool_map
    THEN SelectSeq(reg.tool_map[name], LAMBDA info : info.component_id = id)
    ELSE <<>>

\* Another component holds an entry under the tool name.
SharedName(reg, id, name) ==
    /\ name \in DOMAIN reg.tool_map
    /\ \E i \in DOMAIN reg.tool_map[name] : reg.tool_map[name][i].component_id # id

\* The registry entries of id are the given tools, each held once.
HoldsExactly(reg, id, tools) ==
    /\ id \in DOMAIN reg.component_map
    /\ reg.component_map[id] = NamesOf(tools)
    /\ \A name \in ToolNames :
          LET mine == SelectSeq(tools, LAMBDA t : t.normalized_name = name)
          IN EntriesOf(reg, id, name) =
                [i \in DOMAIN mine |-> [component_id |-> id,
                                        identifier |-> mine[i].identifier,
                                        schema |-> mine[i].schema]]

\* C1, as stated: from a successful load(X) until the next load or unload of X,
\* every tool the load extracted is listed by list_tools and
\* get_component_id_for_tool(name) returns X.
C1_LoadedToolResolvesToComponent ==
    \A id \in Ids : live[id].open =>
        \A i \in DOMAIN live[id].tools :
            LET t == live[id].tools[i]
                found == get_component_id_for_tool(registry, t.normalized_name)
            IN /\ t.schema \in Range(list_tools(registry))
               /\ found.ok
               /\ found.id = id

\* C1, amended: from a successful load(X) until the next load or unload of X,
\* every tool the load extracted is listed by list_tools;
\* get_component_id_for_tool(name) returns X while no other component holds an
\* entry under that name, and fails with the ambiguity error, X among the ids it
\* names, while another component does.
C1_LoadedToolListedAndAttributed ==
    \A id \in Ids : live[id].open =>
        \A i \in DOMAIN live[id].tools :
            LET t == live[id].tools[i]
                found == get_component_id_for_tool(registry, t.normalized_name)
            IN /\ t.schema \in Range(list_tools(registry))
               /\ IF SharedName(registry, id, t.normalized_name)
                  THEN /\ ~found.ok
                       /\ found.err = "Multiple components found"
                       /\ id \in Range(found.ids)
                  ELSE found.ok /\ found.id = id

\* A loaded component with one tool only it exports and one tool another loaded
\* component exports too.
C1_Witness ==
    \E id \in Ids :
        /\ live[id].open
        /\ \E other \in Ids \ {id} : live[other].open
        /\ \E i \in DOMAIN live[id].tools :
              SharedName(registry, id, live[id].tools[i].normalized_name)
        /\ \E i \in DOMAIN live[id].tools :
              ~SharedName(registry, id, live[id].tools[i].normalized_name)

\* C2: when unload(X) has returned success, whatever loads and unloads came
\* before it, X is not in the component map, the registry holds no entry of X,
\* the policy registry has no template for X, and none of X.wasm, X.cwasm,
\* X.metadata.json and X.policy.yaml exists.
C2_UnloadLeavesNothing ==
    \A p \in Procs : (Returned(p, "unload") /\ task[p].res = "Ok") =>
        LET id == task[p].id
        IN /\ id \notin DOMAIN components
           /\ id \notin DOMAIN registry.component_map
           /\ \A name \in DOMAIN registry.tool_map : EntriesOf(registry, id, name) = <<>>
           /\ id \notin DOMAIN policy_registry
           /\ \A kind \in {"wasm", "cwasm", "metadata", "policy"} : ~FileExists(id, kind)

\* A successful unload of a component that was loaded, had tools registered and
\* had a policy attached.
C2_Witness ==
    \E p \in Procs :
        /\ Returned(p, "unload")
        /\ task[p].res = "Ok"
        /\ task[p].id \in DOMAIN task[p].pre.components
        /\ task[p].id \in DOMAIN task[p].pre.registry.component_map
        /\ task[p].id \in DOMAIN task[p].pre.policy_registry

\* C3: when unload(X) has returned an error because a file could not be
\* removed, the component map, the tool registry and the policy registry are as
\* the call found them: a loaded X is still in the map and each of its tools
\* still resolves to a function identifier.
C3_FailedUnloadKeepsMemory ==
    \A p \in Procs : (Returned(p, "unload") /\ task[p].res = "Err:io") =>
        /\ Snapshot = task[p].pre
        /\ task[p].id \in DOMAIN task[p].pre.components =>
              task[p].id \in DOMAIN components
        /\ task[p].id \in DOMAIN task[p].pre.registry.component_map =>
              \A name \in Range(task[p].pre.registry.component_map[task[p].id]) :
                  get_function_identifier(registry, name) # NoIdentifier

\* A failed unload of a loaded component whose module file is already gone.
C3_Witness ==
    \E p \in Procs :
        /\ Returned(p, "unload")
        /\ task[p].res = "Err:io"
        /\ task[p].id \in DOMAIN components
        /\ task[p].id \in DOMAIN registry.component_map
        /\ ~FileExists(task[p].id, "wasm")

\* C4, as stated: a load(X) that succeeds returns Replaced when X was in the
\* component map and New when it was not, leaves one map entry for X, and leaves
\* in the registry, for X, exactly the tools of the module it was given.
C4_ReloadRegistersNewTools ==
    \A p \in Procs : LoadOk(p) =>
        /\ task[p].res = LoadResult(task[p].pre.components, task[p].id)
        /\ task[p].id \in DOMAIN components
        /\ HoldsExactly(registry, task[p].id, component_exports_to_tools(task[p].resource))

\* C5: when two loaded components export the same tool name, list_tools lists
\* both schemas and get_component_id_for_tool fails with the ambiguity error
\* naming both ids; a name no registered component lists fails with the
\* unknown-tool error.
C5_CollisionIsAmbiguous ==
    /\ \A x \in Ids, y \in Ids :
          (x # y /\ live[x].open /\ live[y].open) =>
              \A i \in DOMAIN live[x].tools, j \in DOMAIN live[y].tools :
                  live[x].tools[i].normalized_name = live[y].tools[j].normalized_name =>
                      LET found == get_component_id_for_tool(
                                       registry, live[x].tools[i].normalized_name)
                      IN /\ live[x].tools[i].schema \in Range(list_tools(registry))
                         /\ live[y].tools[j].schema \in Range(list_tools(registry))
                         /\ ~found.ok
                         /\ found.err = "Multiple components found"
                         /\ {x, y} \subseteq Range(found.ids)
    /\ \A name \in ToolNames :
          (\A id \in DOMAIN registry.component_map :
               name \notin Range(registry.component_map[id])) =>
              LET found == get_component_id_for_tool(registry, name)
              IN ~found.ok /\ found.err = "Tool not found"

\* Two loaded components share a tool name, and another name is one that no
\* component has registered.
C5_Witness ==
    /\ \E x \in Ids, y \in Ids :
          /\ x # y
          /\ live[x].open
          /\ live[y].open
          /\ \E i \in DOMAIN live[x].tools, j \in DOMAIN live[y].tools :
                live[x].tools[i].normalized_name = live[y].tools[j].normalized_name
    /\ \E name \in ToolNames : ~HasToolInfo(registry, name)

\* C6, as stated: right after a load or unload that succeeded, the ids in the
\* component map are the ids whose X.wasm is in the plugin directory, and the
\* tool names in the registry are the tool names of the components in the map.
C6_MemoryMatchesDisk ==
    \A p \in Procs :
        (task[p].pc = "done" /\ task[p].res \in {"New", "Replaced", "Ok"}) =>
            /\ \A id \in Ids : id \in DOMAIN components <=> FileExists(id, "wasm")
            /\ DOMAIN registry.tool_map =
                  UNION {Range(NamesOf(component_exports_to_tools(components[id].component))) :
                            id \in DOMAIN components}

\* C7: when load has returned a fetch, compile or pre-link error, the component
\* map, the tool registry and the policy registry are as the call found them;
\* and no tool of a component the linker rejects is in the registry, ever.
C7_RejectedLoadKeepsMemory ==
    /\ \A p \in Procs :
          (Returned(p, "load")
             /\ task[p].res \in {"Err:fetch", "Err:compile", "Err:instantiate"}) =>
              Snapshot = task[p].pre
    /\ \A name \in DOMAIN registry.tool_map :
          \A i \in DOMAIN registry.tool_map[name] :
              registry.tool_map[name][i].identifier[1] # "NoLink"

\* A reload of a loaded component rejected at pre-link.
C7_Witness ==
    \E p \in Procs :
        /\ Returned(p, "load")
        /\ task[p].res = "Err:instantiate"
        /\ task[p].id \in DOMAIN components
        /\ task[p].id \in DOMAIN registry.component_map

\* C8, as stated: when load(X) has returned the copy error, the component map
\* and the tool registry are as the call found them; the tools of an X that was
\* loaded before are still registered.
C8_CopyFailureRestoresRegistry ==
    \A p \in Procs : (Returned(p, "load") /\ task[p].res = "Err:copy") =>
        /\ components = task[p].pre.components
        /\ registry = task[p].pre.registry

\* C9, as stated: after a load(X) that succeeded, the policy registry holds a
\* template for X only when X.policy.yaml exists, is readable, parses and builds.
C9_TemplateOnlyFromCurrentSidecar ==
    \A p \in Procs : LoadOk(p) =>
        (task[p].id \in DOMAIN policy_registry => plugin_dir[task[p].id].policy = "ok")

\* Two loads of the same URI that ran concurrently, with no third call on the id
\* in flight beside them, both started while the id was not in the component
\* map, have both returned success.
BothLoaded ==
    /\ LoadOk("p1")
    /\ LoadOk("p2")
    /\ task["p1"].id = task["p2"].id
    /\ task["p1"].resource = task["p2"].resource
    /\ task["p1"].peers = 1
    /\ task["p2"].peers = 1
    /\ task["p1"].fresh
    /\ task["p2"].fresh

\* C10: two concurrent load(X) calls for an id that was not loaded, when both
\* have returned success (a call fails only on its own fetch, compile, pre-link
\* or copy error): one returned New and the other Replaced, the component map
\* has X, and the registry holds each tool of X exactly once.
C10_ConcurrentLoadsOneNewOneReplaced ==
    BothLoaded =>
        /\ {task["p1"].res, task["p2"].res} = {"New", "Replaced"}
        /\ task["p1"].id \in DOMAIN components
        /\ HoldsExactly(registry, task["p1"].id,
                        component_exports_to_tools(components[task["p1"].id].component))

\* Both calls have returned success for a component with two tools.
C10_Witness ==
    /\ BothLoaded
    /\ Len(registry.component_map[task["p1"].id]) = 2

\* C11: an execute(X, t) of a tool t of X, made after load(X) returned success
\* and before any later load or unload of X started, finds the component
\* instance and the function identifier: it does not fail with the
\* component-not-found or the unknown-tool error.
C11_ExecuteAfterLoadFindsTool ==
    \A p \in Procs :
        (/\ Returned(p, "execute")
         /\ live[task[p].id].open
         /\ \E i \in DOMAIN live[task[p].id].tools :
               live[task[p].id].tools[i].normalized_name = task[p].tool) =>
            task[p].res \notin {"Err:component_not_found", "Err:unknown_tool"}

\* An execute of a tool of a loaded component that was served, while another
\* component is loaded too.
C11_Witness ==
    \E p \in Procs :
        /\ Returned(p, "execute")
        /\ live[task[p].id].open
        /\ \E i \in DOMAIN live[task[p].id].tools :
              live[task[p].id].tools[i].normalized_name = task[p].tool
        /\ task[p].res = "Ok"
        /\ \E other \in Ids \ {task[p].id} : other \in DOMAIN components

\* A tool call that list_tools advertised when it was issued, issued while the
\* startup loader had not finished with the tool's component, has returned.
EarlyCall(p) == Returned(p, "call") /\ task[p].listed /\ task[p].early

\* C12: a call of a tool that list_tools advertised, issued during fast start
\* before phase 2 finished for the tool's component, is served or returns the
\* retriable component-not-found error (stated for the calls whose lookup found
\* one registry entry under the name, which no ambiguity can fail).
C12_EarlyCallServedOrRetriable ==
    \A p \in Procs :
        (EarlyCall(p) /\ task[p].id \in Ids) =>
            task[p].res \in {"Ok", "Err:component_not_found"}

\* C13: a call of a tool that phase 1 registered from a sidecar, issued before
\* the tool's component was compiled, compiles the component: when the call has
\* returned, the component is in the component map and the call was served.
C13_ExecuteTriggersCompilation ==
    \A p \in Procs :
        (/\ Returned(p, "call")
         /\ task[p].id \in boot.hydrated
         /\ task[p].fresh) =>
            /\ task[p].id \in DOMAIN components
            /\ task[p].res = "Ok"

\* The registry has an entry of the component under some tool name.
Visible(reg, id) == \E name \in DOMAIN reg.tool_map : EntriesOf(reg, id, name) # <<>>

\* The sidecar of id exists, parses, and its stamp has the size and the mtime of
\* the <id>.wasm in the directory, and its hash when the stamp carries one.
StampMatches(id) ==
    LET md == plugin_dir[id].metadata
        wasm == plugin_dir[id].wasm
    IN /\ md.exists
       /\ md.parses
       /\ md.validation_stamp.file_size = FileSize(wasm)
       /\ md.validation_stamp.mtime = MTime(wasm)
       /\ \/ md.validation_stamp.content_hash = NoHash
          \/ md.validation_stamp.content_hash = Sha256(wasm)

\* Phase 1 meets <id>.wasm in this step.
HydrateStep(id) == boot.phase = "hydrate" /\ id \notin boot.seen /\ id \in boot'.seen

\* Phase 1 passed the component over, no client has issued a request, and the
\* component's tools are in the registry.
VisibleUnhydrated(id) ==
    /\ ops = 0
    /\ id \in boot.seen \ boot.hydrated
    /\ Visible(registry, id)

\* C14 as stated, its second half: the tools of a component that phase 1 passed
\* over are visible only once phase 2 has compiled the component and rewritten
\* its sidecar.
C14_VisibleOnlyAfterSidecarRewritten ==
    \A id \in Ids :
        VisibleUnhydrated(id) =>
            /\ id \in DOMAIN components
            /\ StampMatches(id)

\* C14, amended: phase 1 registers the tools of the sidecar, compiling nothing
\* and writing nothing, exactly when the sidecar exists, parses and its stamp
\* matches <id>.wasm; a component it passed over has its tools visible only
\* after phase 2 has compiled it (its future is past the registration step),
\* whether or not it is in the component map and its sidecar rewritten yet.
C14_HydratedExactlyWhenStampMatches ==
    [][\A id \in Ids :
          /\ HydrateStep(id) =>
                /\ components' = components
                /\ plugin_dir' = plugin_dir
                /\ IF StampMatches(id)
                   THEN /\ id \in boot'.hydrated
                        /\ \A i \in DOMAIN plugin_dir[id].metadata.tools :
                              LET tool == plugin_dir[id].metadata.tools[i]
                              IN \E k \in DOMAIN registry'.tool_map[tool.normalized_name] :
                                    registry'.tool_map[tool.normalized_name][k] =
                                        [component_id |-> id,
                                         identifier |-> tool.identifier,
                                         schema |-> tool.schema]
                   ELSE /\ id \notin boot'.hydrated
                        /\ registry' = registry
          /\ VisibleUnhydrated(id)' =>
                /\ bg'[id].pc \in {"insert", "save_metadata", "attach_policy", "done"}
                /\ bg'[id].component \in ValidModules]_vars

C14_Witness ==
    /\ VisibleUnhydrated("c1")
    /\ bg["c1"].pc = "insert"
    /\ "c1" \notin DOMAIN components
    /\ ~StampMatches("c1")
    /\ plugin_dir["c1"].metadata.exists
    /\ "c2" \in boot.hydrated

\* C15: in every reachable state the registry holds, under each tool name, at
\* most one entry of each component id.
C15_OneEntryPerNameAndComponent ==
    \A name \in DOMAIN registry.tool_map : \A id \in Ids :
        Len(EntriesOf(registry, id, name)) <= 1

\* The directory entries whose future is past the semaphore and not finished:
\* the components being compiled or loaded.
BeingLoaded == {e \in Entries : bg[e].pc \notin {"none", "waiting", "done"}}

\* C16: while load_existing_components_async runs, the components being
\* compiled or loaded at the same time are never more than the caller's
\* override when one was given, and min(number of CPUs, 4) otherwise.
C16_LoadersWithinConcurrencyLimit ==
    boot.phase # "off" =>
        Cardinality(BeingLoaded) <=
            IF boot.launch.concurrency.some THEN boot.launch.concurrency.n
            ELSE IF boot.launch.cpus < 4 THEN boot.launch.cpus ELSE 4

C16_Witness ==
    /\ boot.phase = "loading"
    /\ ~boot.launch.concurrency.some
    /\ boot.launch.cpus = 2
    /\ Cardinality(BeingLoaded) = 2
    /\ \E e \in Entries : bg[e].pc = "waiting"

\* The future of a directory entry ends in this step.
Finishes(e) == bg[e].pc # "done" /\ bg'[e].pc = "done"

\* C17: the future of an entry calls the notification hook once when it ends
\* having loaded the component, after it put the component in the component
\* map and with the component's tools registered (as the state shows when no
\* client request has interfered); it does not call the hook for an entry that
\* is not a .wasm file, for a component that was already in the component map,
\* or when the load failed, and the hook is called at no other moment.
C17_HookOncePerLoadedComponent ==
    [][\A e \in Entries :
          IF Finishes(e)
          THEN IF bg'[e].res = "Ok(true)"
               THEN /\ bg[e].hooks = 0
                    /\ bg'[e].hooks = 1
                    /\ e \in Ids
                    /\ bg[e].pc = "attach_policy"
                    /\ ops = 0 => e \in DOMAIN components' /\ Visible(registry', e)
               ELSE /\ bg'[e].hooks = 0
                    /\ \/ e = "other"
                       \/ e \in DOMAIN components
                       \/ bg'[e].res = "Err"
          ELSE bg'[e].hooks = bg[e].hooks]_vars

C17_Witness ==
    /\ bg["c2"].res = "Ok(true)"
    /\ bg["c2"].hooks = 1
    /\ bg["c1"].res = "Ok(false)"
    /\ bg["c1"].hooks = 0
    /\ bg["other"].pc = "done"
    /\ bg["other"].hooks = 0

\* C18: the handler of a load or an unload sends one tool-list-changed
\* notification when the manager returned Ok, and has sent it when it returns
\* the success result; it sends none when the manager failed, and then returns
\* Err for a load and a result flagged is_error for an unload.
C18_NotifiedBeforeSuccessOnly ==
    \A p \in Procs :
        /\ task[p].notified = 1 => Succeeded(task[p])
        /\ task[p].reply # NoReply =>
              IF Succeeded(task[p])
              THEN task[p].notified = 1 /\ task[p].reply = "Ok(success)"
              ELSE /\ task[p].notified = 0
                   /\ task[p].op = "load" => task[p].reply = "Err"
                   /\ task[p].op = "unload" => task[p].reply = "Ok(is_error)"

C18_Witness ==
    /\ task["p1"].op = "unload"
    /\ task["p1"].fresh = FALSE
    /\ task["p1"].reply = "Ok(success)"
    /\ task["p1"].notified = 1
    /\ task["p1"].id \notin DOMAIN components

\* Caller p takes a step of an execute.
ExecuteStep(p) == task'[p].op = "execute" /\ task'[p] # task[p]

\* C19: every step of an execute leaves the component map (the pre-linked
\* instances) and the policy registry (the templates) as they are and leaves
\* the store of every other call as it is; the step that builds the host state
\* gives the call a store of its own, made from the component's policy template
\* (the default one when it has none) and bearing no write of any call.
C19_ExecuteOwnsItsStore ==
    [][\A p \in Procs :
          ExecuteStep(p) =>
              /\ components' = components
              /\ policy_registry' = policy_registry
              /\ \A q \in Procs \ {p} : task'[q].store = task[q].store
              /\ task[p].pc = "exec_state" =>
                    task'[p].store =
                        [made |-> TRUE,
                         template |-> IF task[p].id \in DOMAIN policy_registry
                                      THEN policy_registry[task[p].id]
                                      ELSE DefaultPolicyTemplate,
                         writes |-> 0]
              /\ task[p].pc \in {"exec_instantiate", "exec_lookup", "exec_call"} =>
                    task'[p].store.template = task[p].store.template]_vars

\* Two executes of one component run side by side, one has returned with the
\* writes of its guest in its store, the store of the other has none.
C19_Witness ==
    /\ task["p1"].op = "execute"
    /\ task["p2"].op = "execute"
    /\ task["p1"].id = task["p2"].id
    /\ task["p1"].res = "Ok"
    /\ task["p1"].store.writes = 2
    /\ task["p2"].pc = "exec_call"
    /\ task["p2"].store.made
    /\ task["p2"].store.writes = 0
    /\ task["p2"].store.template = WasiStateTemplate("ok")

\* The locks a call holds after the i-th thing it did.
Held(trace, i) ==
    {lock \in Locks :
        \E j \in 1..i :
            /\ trace[j] = Acquire(lock)
            /\ \A k \in (j + 1)..i : trace[k] # Release(lock)}

\* The locks a call took, in the order it took them.
Acquired(trace) ==
    LET acquires == SelectSeq(trace, LAMBDA e : e[1] = "acquire")
    IN [i \in DOMAIN acquires |-> acquires[i][2]]

\* The position of a lock in an order of the three locks.
Position(order, lock) == CHOOSE i \in DOMAIN order : order[i] = lock

\* The call never took a lock after one that comes later in the order.
TakenInOrder(trace, order) ==
    \A i, j \in DOMAIN Acquired(trace) :
        i < j => Position(order, Acquired(trace)[i]) <= Position(order, Acquired(trace)[j])

\* No file I/O, compilation or guest execution of the call was done with a
\* lock held.
NoLockAcrossWork(trace) ==
    \A i \in DOMAIN trace :
        trace[i] \in {FileIo, Compilation, GuestExecution} => Held(trace, i) = {}

\* C20 as stated: no call holds a lock across file I/O, compilation or guest
\* execution, and every call takes its locks in the order component map, tool
\* registry, policy registry.
C20_LocksInFixedOrder ==
    \A p \in Procs :
        /\ NoLockAcrossWork(task[p].trace)
        /\ TakenInOrder(task[p].trace, <<"components", "registry", "policy_registry">>)

\* C20, amended: no call holds a lock across file I/O, compilation or guest
\* execution, and no call holds two of the locks at once; unload takes them in
\* the order component map, tool registry, policy registry, load in the order
\* tool registry, component map, policy registry, and execute in the order
\* component map, policy registry, tool registry.
C20_NoLockAcrossWorkNorNested ==
    \A p \in Procs :
        /\ NoLockAcrossWork(task[p].trace)
        /\ \A i \in DOMAIN task[p].trace : Cardinality(Held(task[p].trace, i)) <= 1
        /\ task[p].op = "unload" =>
              TakenInOrder(task[p].trace, <<"components", "registry", "policy_registry">>)
        /\ task[p].op = "load" =>
              TakenInOrder(task[p].trace, <<"registry", "components", "policy_registry">>)
        /\ task[p].op = "execute" =>
              TakenInOrder(task[p].trace, <<"components", "policy_registry", "registry">>)

C20_Witness ==
    /\ LoadOk("p1")
    /\ Acquired(task["p1"].trace) = <<"registry", "components", "policy_registry">>
    /\ \E i \in DOMAIN task["p1"].trace : task["p1"].trace[i] = Compilation

(* ----------------------- schema.rs: output schemas ---------------------- *)

RECURSIVE canonicalize_result_schema(_)

\* A tuple's items as an object schema whose items are left as they are.
TupleItemsKeptRaw(items) ==
    Object([type |-> Str("object"),
            properties |-> Object([key \in {ValKey(i - 1) : i \in 1..Len(items)} |->
                items[CHOOSE i \in 1..Len(items) : ValKey(i - 1) = key]]),
            required |-> Array([i \in 1..Len(items) |-> Str(ValKey(i - 1))])])

\* lines 101-115.
tuple_items_to_object_schema(items) ==
    Object([type |-> Str("object"),
            properties |-> Object([key \in {ValKey(i - 1) : i \in 1..Len(items)} |->
                canonicalize_result_schema(
                    items[CHOOSE i \in 1..Len(items) : ValKey(i - 1) = key])]),
            required |-> Array([i \in 1..Len(items) |-> Str(ValKey(i - 1))])])

\* lines 71-99.
canonicalize_result_schema(schema) ==
    IF schema.k = "object"
    THEN IF TypeIs(schema, "array") /\ Get(schema, "items").k = "array"
         THEN tuple_items_to_object_schema(Get(schema, "items").items)
         ELSE IF TypeIs(schema, "object") /\ Get(schema, "properties").k = "object"
              THEN LET props == Get(schema, "properties").map
                   IN  Object(Put(schema.map, "properties",
                           Object([key \in DOMAIN props |->
                               canonicalize_result_schema(props[key])])))
              ELSE schema
    ELSE IF schema.k = "array"
         THEN tuple_items_to_object_schema(schema.items)
         ELSE schema

\* lines 117-122.
extract_result_schema(schema) == Get(AsObject(Get(schema, "properties")), "result")

\* lines 124-138: outer is the map of the outer schema.
ensure_result_required(outer) ==
    LET required == IF Get(Object(outer), "required").k = "array"
                    THEN Get(Object(outer), "required").items
                    ELSE <<>>
        has_result == \E i \in DOMAIN required : required[i] = Str("result")
    IN  Object(Put(outer, "required",
            Array(IF has_result THEN required ELSE Append(required, Str("result")))))

\* lines 140-152.
build_result_wrapper(result_schema) ==
    Object([type |-> Str("object"),
            properties |-> Object([result |-> result_schema]),
            required |-> Array(<<Str("result")>>)])

\* lines 66-69.
wrap_schema_in_result(schema) == build_result_wrapper(schema)

\* canonicalize_output_schema that wraps every schema.
CanonicalizeWrappingAll(schema) ==
    wrap_schema_in_result(canonicalize_result_schema(schema))

\* lines 10-36.
canonicalize_output_schema(schema) ==
    IF schema.k = "object" /\ TypeIs(schema, "object")
       /\ extract_result_schema(schema) # None
    THEN LET props == Get(schema, "properties").map
             outer == Put(schema.map, "properties",
                          Object(Put(props, "result",
                              canonicalize_result_schema(extract_result_schema(schema)))))
         IN  ensure_result_required(outer)
    ELSE wrap_schema_in_result(canonicalize_result_schema(schema))

RECURSIVE CountValKeys(_, _)

\* lines 220-223: the first idx for which the map has no key val{idx}.
CountValKeys(map, idx) ==
    IF ValKey(idx) \in DOMAIN map THEN CountValKeys(map, idx + 1) ELSE idx

\* lines 216-225.
looks_like_tuple_keys(map) ==
    /\ DOMAIN map # {}
    /\ CountValKeys(map, 0) > 0
    /\ Cardinality(DOMAIN map) = CountValKeys(map, 0)

\* lines 160-166 and 202-208: an array as an object keyed val0.., and back.
ArrayToValObject(items) ==
    Object([key \in {ValKey(i - 1) : i \in 1..Len(items)} |->
               items[CHOOSE i \in 1..Len(items) : ValKey(i - 1) = key]])

ValObjectToArray(map) ==
    Array([i \in 1..CountValKeys(map, 0) |-> map[ValKey(i - 1)]])

RECURSIVE normalize_result_value(_, _)

\* lines 154-214.
normalize_result_value(schema, value) ==
    IF TypeIs(schema, "object")
    THEN IF Get(schema, "properties").k = "object"
         THEN LET props == Get(schema, "properties").map
              IN  IF \A key \in DOMAIN props : starts_with(key, "val")
                  THEN CASE value.k = "array" -> ArrayToValObject(value.items)
                         [] value.k = "object" -> value
                         [] OTHER -> Object([val0 |-> value])
                  ELSE IF value.k = "object"
                       THEN Object([key \in DOMAIN props \cup DOMAIN value.map |->
                                IF key \in DOMAIN props
                                THEN IF key \in DOMAIN value.map
                                     THEN normalize_result_value(props[key], value.map[key])
                                     ELSE Null
                                ELSE value.map[key]])
                       ELSE value
         ELSE value
    ELSE IF TypeIs(schema, "array")
         THEN IF value.k = "object" /\ looks_like_tuple_keys(value.map)
              THEN ValObjectToArray(value.map)
              ELSE value
         ELSE value

\* ensure_structured_result that returns the wrapper alone.
EnsureStructuredDroppingKeys(schema, structured_value) ==
    IF extract_result_schema(schema) = None
    THEN structured_value
    ELSE Object([result |->
             normalize_result_value(extract_result_schema(schema),
                 IF Get(structured_value, "result") # None
                 THEN Get(structured_value, "result")
                 ELSE structured_value)])

\* lines 39-64.
ensure_structured_result(schema, structured_value) ==
    LET result_schema == extract_result_schema(schema)
    IN  IF result_schema = None
        THEN structured_value
        ELSE IF structured_value.k = "object" /\ "result" \in DOMAIN structured_value.map
             THEN Object(Put(structured_value.map, "result",
                      normalize_result_value(result_schema, structured_value.map["result"])))
             ELSE Object([result |->
                      normalize_result_value(result_schema, structured_value)])

(* ----------------- components.rs: the advertised schema ------------------ *)

\* The text of a result: result_json's own string, or the serialization of a
\* result_json that is not a string.
Raw(s) == [raw |-> s, json |-> None]

to_string(value) == [raw |-> "", json |-> value]

\* The numbers whose text is told apart from other strings.
MaxNumber == 7

\* serde_json::from_str: the value a text is the JSON document of, None when
\* it is none's. A serialization parses back; of the raw strings, null and
\* the decimal numbers are documents.
from_str(text) ==
    IF text.json # None THEN text.json
    ELSE IF text.raw = "null" THEN Null
    ELSE IF \E n \in 0..MaxNumber : ToString(n) = text.raw
         THEN Number(CHOOSE n \in 0..MaxNumber : ToString(n) = text.raw)
         ELSE None

\* lib.rs lines 1101-1107: the string execute_component_call returns.
ResultStr(result_json) ==
    IF result_json.k = "string" THEN Raw(result_json.s) ELSE to_string(result_json)

\* lines 170-172.
parse_structured_result(result) ==
    IF from_str(result) # None THEN from_str(result) ELSE Str(result.raw)

\* lines 223-235: the handler's own wrapper.
components_wrap_schema_in_result(schema) ==
    Object([type |-> Str("object"),
            properties |-> Object([result |-> schema]),
            required |-> Array(<<Str("result")>>)])

\* normalize_output_schema that wraps every schema.
NormalizeWrappingAll(schema) ==
    IF schema.k = "null" THEN None ELSE components_wrap_schema_in_result(schema)

\* lines 206-221.
normalize_output_schema(schema) ==
    IF schema.k = "null"
    THEN None
    ELSE IF schema.k = "object" /\ TypeIs(schema, "object")
         THEN schema
         ELSE components_wrap_schema_in_result(schema)

\* lines 174-204: output_schema is None for Option::None.
align_structured_result_with_schema(output_schema, structured_value) ==
    IF /\ output_schema # None
       /\ TypeIs(output_schema, "object")
       /\ Get(output_schema, "properties").k = "object"
       /\ "result" \in DOMAIN Get(output_schema, "properties").map
    THEN IF structured_value.k = "object" /\ "result" \in DOMAIN structured_value.map
         THEN structured_value
         ELSE Object([result |-> structured_value])
    ELSE structured_value

\* The JSON of a tool: its name and, when it declares one, its outputSchema.
ToolJson(declared) ==
    IF declared = None
    THEN Object([name |-> Str("search")])
    ELSE Object([name |-> Str("search"), outputSchema |-> declared])

\* lines 424-462: the Tool's output_schema (None for Option::None).
parse_tool_schema(tool_json) ==
    LET normalized == IF Get(tool_json, "outputSchema") = None
                      THEN None
                      ELSE normalize_output_schema(Get(tool_json, "outputSchema"))
    IN  IF normalized.k = "object" THEN normalized ELSE None

\* lines 123-162: the structured_content of the result of a successful call
\* (None for Option::None).
StructuredContent(tool_schema, result_str) ==
    LET raw_schema == Get(tool_schema, "outputSchema")
    IN  IF raw_schema # None /\ normalize_output_schema(raw_schema) # None
        THEN align_structured_result_with_schema(
                 normalize_output_schema(raw_schema),
                 parse_structured_result(result_str))
        ELSE None

(* ---------------------- declared schemas and values --------------------- *)

\* The longest tuple.
MaxItems == 2

Tuples(S) == UNION {[1..n -> S] : n \in 0..MaxItems}

StringSchema == Object([type |-> Str("string")])

TupleSchema(items) == Object([type |-> Str("array"), items |-> Array(items)])

ListSchema(item) == Object([type |-> Str("array"), items |-> item])

RecordSchema(props) == Object([type |-> Str("object"), properties |-> Object(props)])

OneOf(a, b) == Object([oneOf |-> Array(<<a, b>>)])

\* The names of a record's only field: plain ones, result, and names that
\* begin with val.
FieldNames == {"a", "result", "value", "val0"}

ShapesOver(S) ==
    {TupleSchema(t) : t \in Tuples(S)}
        \cup {ListSchema(x) : x \in S}
        \cup {RecordSchema(key :> x) : key \in FieldNames, x \in S}
        \cup {OneOf(x, StringSchema) : x \in S}

Schemas1 == {StringSchema} \cup ShapesOver({StringSchema})

\* The schemas that are nested in others.
Nested ==
    {StringSchema, TupleSchema(<<StringSchema>>), ListSchema(StringSchema),
     RecordSchema([a |-> StringSchema]), RecordSchema([result |-> StringSchema])}

\* Objects with a result property and other keys, and JSON that is no schema.
OtherSchemas ==
    {Null, Str("string"), Array(<<StringSchema, StringSchema>>), Object(EmptyMap),
     Object([type |-> Str("object"), properties |-> Str("none")]),
     Object([properties |-> Object([result |-> TupleSchema(<<StringSchema>>)])]),
     Object([type |-> Str("object"), title |-> Str("t"),
             properties |-> Object([result |-> TupleSchema(<<StringSchema>>),
                                    a |-> TupleSchema(<<StringSchema>>)]),
             required |-> Array(<<Str("a")>>)]),
     Object([type |-> Str("object"),
             properties |-> Object([result |-> StringSchema]),
             required |-> Array(<<Str("result")>>)]),
     Object([type |-> Str("object"),
             properties |-> Object([result |-> ListSchema(StringSchema)]),
             required |-> Str("result")]),
     RecordSchema([a |-> StringSchema, b |-> StringSchema]),
     RecordSchema([a |-> RecordSchema([b |-> StringSchema])])}

Schemas == Schemas1 \cup ShapesOver(Nested) \cup OtherSchemas

\* What a guest returns.
Values ==
    {Null, Str("hi"), Str("null"), Str(ToString(MaxNumber)), Number(MaxNumber),
     Array(<<>>), Array(<<Str("hi")>>), Array(<<Str("hi"), Number(1)>>),
     Object(EmptyMap), Object([a |-> Str("hi")]), Object([b |-> Str("hi")]),
     Object([a |-> Object(EmptyMap)]),
     Object([result |-> Str("hi")]),
     Object([result |-> Array(<<Str("hi")>>), extra |-> Number(1)]),
     Object([val0 |-> Str("hi")]), Object([val0 |-> Str("hi"), val1 |-> Number(1)]),
     Object([value |-> Str("hi")])}

(* --------------------------- the output path ---------------------------- *)

Did(step) == step \in out.did

Do(step, field, result) ==
    /\ ~Did(step)
    /\ out' = [out EXCEPT ![field] = result, !.did = @ \cup {step}]
    /\ UNCHANGED <<components, registry, policy_registry, plugin_dir, task, ops, mode,
                   live, boot, bg>>

\* schema.rs line 10 on the declared schema.
Canonicalize ==
    /\ out.declared # None
    /\ Do("canonicalize", "canonical", canonicalize_output_schema(out.declared))

\* schema.rs line 10 on a schema it returned.
CanonicalizeAgain ==
    /\ Did("canonicalize")
    /\ Do("again", "twice", canonicalize_output_schema(out.canonical))

\* schema.rs line 39 on the declared schema or on its canonical form.
EnsureStructured(canonical) ==
    /\ out.declared # None
    /\ canonical => Did("canonicalize")
    /\ ~Did("ensure")
    /\ LET schema == IF canonical THEN out.canonical ELSE out.declared
       IN  out' = [out EXCEPT !.given = schema,
                              !.structured = ensure_structured_result(schema, out.value),
                              !.did = @ \cup {"ensure"}]
    /\ UNCHANGED <<components, registry, policy_registry, plugin_dir, task, ops, mode,
                   live, boot, bg>>

\* components.rs line 424 on the tool's JSON.
ParseToolSchema ==
    Do("parse", "advertised", parse_tool_schema(ToolJson(out.declared)))

\* components.rs lines 115-162, the call having returned Ok.
HandleComponentCallOk ==
    Do("call", "content", StructuredContent(ToolJson(out.declared), ResultStr(out.value)))

InitOutput ==
    /\ components = EmptyMap
    /\ registry = NewRegistry
    /\ policy_registry = EmptyMap
    /\ plugin_dir = [id \in Ids |-> NoFiles]
    /\ task = [p \in Procs |-> Idle]
    /\ ops = 0
    /\ mode = "sequential"
    /\ live = [id \in Ids |-> NotLive]
    /\ boot = BootOff
    /\ bg = [e \in Entries |-> NoTask]
    /\ \E declared \in Schemas \cup {None}, value \in Values :
           out = [NoOutput EXCEPT !.declared = declared, !.value = value]

NextOutput ==
    \/ Canonicalize
    \/ CanonicalizeAgain
    \/ \E canonical \in BOOLEAN : EnsureStructured(canonical)
    \/ ParseToolSchema
    \/ HandleComponentCallOk

OutputSpec == InitOutput /\ [][NextOutput]_vars

(* ------------------------ properties: output schemas -------------------- *)

\* C21: canonicalize_output_schema is idempotent: applied to a schema it
\* returned, it returns that schema again.
C21_CanonicalizeIdempotent ==
    Did("again") => out.twice = out.canonical

\* A tuple nested in a tuple has been canonicalized twice.
C21_Witness ==
    /\ Did("again")
    /\ out.declared = TupleSchema(<<TupleSchema(<<StringSchema>>)>>)
    /\ out.canonical # wrap_schema_in_result(out.declared)
    /\ out.twice = out.canonical

\* The shape the specification gives every canonical schema: an object schema
\* with a result property that is required.
IsResultSchema(schema) ==
    /\ schema.k = "object"
    /\ TypeIs(schema, "object")
    /\ extract_result_schema(schema) # None
    /\ Get(schema, "required").k = "array"
    /\ \E i \in DOMAIN Get(schema, "required").items :
           Get(schema, "required").items[i] = Str("result")

\* An object schema that already has a result property.
HasResultProperty(schema) ==
    schema.k = "object" /\ TypeIs(schema, "object") /\ extract_result_schema(schema) # None

\* C22: the canonical schema is an object schema with a required result
\* property; a declared object schema with a result property keeps its other
\* outer keys and its other properties, and anything else becomes exactly the
\* wrapper around the declared schema with its tuples rewritten.
C22_CanonicalShape ==
    Did("canonicalize") =>
        /\ IsResultSchema(out.canonical)
        /\ HasResultProperty(out.declared) =>
               /\ \A key \in DOMAIN out.declared.map \ {"properties", "required"} :
                      Get(out.canonical, key) = Get(out.declared, key)
               /\ \A key \in DOMAIN Get(out.declared, "properties").map \ {"result"} :
                      Get(Get(out.canonical, "properties"), key)
                          = Get(Get(out.declared, "properties"), key)
               /\ extract_result_schema(out.canonical)
                      = canonicalize_result_schema(extract_result_schema(out.declared))
        /\ ~HasResultProperty(out.declared) =>
               out.canonical =
                   Object([type |-> Str("object"),
                           properties |->
                               Object([result |-> canonicalize_result_schema(out.declared)]),
                           required |-> Array(<<Str("result")>>)])

\* An object schema with a result property, a title and another property was
\* canonicalized: the title and the other property are kept, result is added to
\* the required list.
C22_Witness ==
    /\ Did("canonicalize")
    /\ HasResultProperty(out.declared)
    /\ Get(out.declared, "title") = Str("t")
    /\ Get(out.canonical, "title") = Str("t")
    /\ Get(out.canonical, "required") = Array(<<Str("a"), Str("result")>>)
    /\ extract_result_schema(out.canonical) # extract_result_schema(out.declared)

RECURSIVE ContainsTuple(_)

\* A tuple-form array schema is in this JSON value, at some depth.
ContainsTuple(v) ==
    \/ v.k = "object" /\ TypeIs(v, "array") /\ Get(v, "items").k = "array"
    \/ v.k = "object" /\ \E key \in DOMAIN v.map : ContainsTuple(v.map[key])
    \/ v.k = "array" /\ \E i \in DOMAIN v.items : ContainsTuple(v.items[i])

\* C23: after canonicalize_output_schema no tuple-form array schema is left
\* anywhere inside the result schema.
C23_NoTupleRemains ==
    Did("canonicalize") => ~ContainsTuple(extract_result_schema(out.canonical))

\* The value that is aligned: v's own result member when v is an object that
\* has one, v otherwise.
Unwrapped(v) == IF Get(v, "result") # None THEN Get(v, "result") ELSE v

\* C24 as claimed: without a result schema the value is returned unchanged,
\* with one the object {result: v'} is returned, v' being the unwrapped value
\* aligned to the result schema.
C24_StructuredIsResultAlone ==
    Did("ensure") =>
        IF extract_result_schema(out.given) = None
        THEN out.structured = out.value
        ELSE out.structured =
                 Object([result |->
                     normalize_result_value(extract_result_schema(out.given),
                                            Unwrapped(out.value))])

\* C24 amended: without a result schema the value is returned unchanged; with
\* one an object is returned whose result key holds the unwrapped value
\* aligned to the result schema, and whose other keys are the other keys of a
\* value that had a result key, none otherwise.
C24_StructuredHoldsAlignedResult ==
    Did("ensure") =>
        IF extract_result_schema(out.given) = None
        THEN out.structured = out.value
        ELSE /\ out.structured.k = "object"
             /\ Get(out.structured, "result") =
                    normalize_result_value(extract_result_schema(out.given),
                                           Unwrapped(out.value))
             /\ DOMAIN out.structured.map \ {"result"} =
                    IF Get(out.value, "result") # None
                    THEN DOMAIN out.value.map \ {"result"}
                    ELSE {}
             /\ \A key \in DOMAIN out.structured.map \ {"result"} :
                    out.structured.map[key] = out.value.map[key]

\* A value with a result key and another key was aligned to the canonical
\* schema of a tuple: its result became an object keyed val0, the other key
\* stayed.
C24_Witness ==
    /\ Did("ensure")
    /\ out.declared = TupleSchema(<<StringSchema>>)
    /\ out.given = out.canonical
    /\ out.value = Object([result |-> Array(<<Str("hi")>>), extra |-> Number(1)])
    /\ out.structured = Object([result |-> Object([val0 |-> Str("hi")]),
                                extra |-> Number(1)])

\* An object schema with properties.
ObjectSchema(schema) ==
    TypeIs(schema, "object") /\ Get(schema, "properties").k = "object"

\* An object schema whose properties are val0, val1, ... and no others, as
\* tuple_items_to_object_schema makes them.
TupleShaped(schema) ==
    /\ ObjectSchema(schema)
    /\ LET props == Get(schema, "properties").map
       IN  Cardinality(DOMAIN props) = CountValKeys(props, 0)

\* C25: alignment to a tuple-shaped object schema turns an array into the
\* object keyed val0, val1, ... and a scalar a into {val0: a}; alignment of an
\* object to any other object schema adds every declared property it lacks
\* with null and keeps every property that is not declared.
C25_AlignmentFollowsSchemaShape ==
    Did("ensure") /\ extract_result_schema(out.given) # None =>
        LET schema == extract_result_schema(out.given)
            v == Unwrapped(out.value)
            aligned == Get(out.structured, "result")
            props == Get(schema, "properties").map
        IN  /\ TupleShaped(schema) /\ v.k = "array" =>
                   aligned = ArrayToValObject(v.items)
            /\ TupleShaped(schema) /\ v.k \notin {"array", "object"} =>
                   aligned = Object([val0 |-> v])
            /\ ObjectSchema(schema) /\ ~TupleShaped(schema) /\ v.k = "object" =>
                   /\ \A key \in DOMAIN props \ DOMAIN v.map : Get(aligned, key) = Null
                   /\ \A key \in DOMAIN v.map \ DOMAIN props :
                          Get(aligned, key) = v.map[key]

(* ----------------------- properties: the call's result ------------------ *)

\* The tool declares an output schema: its JSON has an outputSchema that is
\* not null.
DeclaresOutputSchema == out.declared # None /\ out.declared # Null

\* C26: the structured content of a successful call to a tool that declares
\* an output schema is a JSON object whose result key holds the guest's value.
C26_StructuredContentHoldsResult ==
    Did("call") /\ DeclaresOutputSchema =>
        /\ out.content.k = "object"
        /\ Get(out.content, "result") = out.value

\* The value the handler makes of the text of the guest's result.
Parsed == parse_structured_result(ResultStr(out.value))

\* The output schema parse_tool_schema advertises: none for a tool without
\* outputSchema or with a null one, the declared schema when its type is
\* object, the wrapper around the declared schema otherwise.
AdvertisedAsDeclared ==
    Did("parse") =>
        out.advertised =
            IF out.declared = None \/ out.declared = Null
            THEN None
            ELSE IF out.declared.k = "object" /\ TypeIs(out.declared, "object")
                 THEN out.declared
                 ELSE Object([type |-> Str("object"),
                              properties |-> Object([result |-> out.declared]),
                              required |-> Array(<<Str("result")>>)])

\* C27 as claimed: the advertised schema is as above, and the structured
\* content of a call is the value under result exactly when the advertised
\* schema has a result property.
C27_WrappedExactlyWhenResultAdvertised ==
    /\ AdvertisedAsDeclared
    /\ Did("parse") /\ Did("call") /\ out.advertised # None =>
           out.content = IF extract_result_schema(out.advertised) # None
                         THEN Object([result |-> Parsed])
                         ELSE Parsed

\* C27 amended: the advertised schema is as above; without one a call has no
\* structured content; with one the content is the value under result when
\* the schema has a result property and the value is not already an object
\* with a result key, and the value as it is in every other case.
C27_WrappedUnlessResultPresent ==
    /\ AdvertisedAsDeclared
    /\ Did("parse") /\ Did("call") =>
           out.content =
               IF out.advertised = None
               THEN None
               ELSE IF extract_result_schema(out.advertised) # None
                       /\ Get(Parsed, "result") = None
                    THEN Object([result |-> Parsed])
                    ELSE Parsed

\* A tool declaring a string was advertised with the wrapper schema and
\* called; the guest's object already had a result key and is the content.
C27_Witness ==
    /\ Did("parse") /\ Did("call")
    /\ out.declared = StringSchema
    /\ out.advertised = components_wrap_schema_in_result(StringSchema)
    /\ out.value = Object([result |-> Str("hi")])
    /\ out.content = out.value

(* ----------------------- properties: error handling --------------------- *)

\* An unload that is the first request to a new manager: its id is not in the
\* component map and has no file in the plugin directory.
UnloadOfUnknown(p) == Returned(p, "unload") /\ ops = 1

\* C28: unload of an id that is neither in the component map nor has a file
\* in the plugin directory fails with a not-found error and changes nothing.
C28_UnloadUnknownIdFailsNotFound ==
    \A p \in Procs :
        UnloadOfUnknown(p) =>
            /\ task[p].res = "Err:not_found"
            /\ components = EmptyMap
            /\ registry = NewRegistry
            /\ policy_registry = EmptyMap
            /\ plugin_dir[task[p].id] = NoFiles

(* --------------------------- permission calls --------------------------- *)

\* The storage URIs a caller names: the empty one and a directory.
StorageUris == {"", "fs:///tmp/test"}

\* The permission kinds a caller names.
PermissionKinds == {"network", "storage"}

PermissionOps == {"revoke_permission", "reset_permission", "revoke_storage_permission_by_uri"}

\* A call that is answered in one step.
Answer(p, op, id, uri, result, locks) ==
    [StartTask(p, [Idle EXCEPT !.op = op, !.id = id, !.resource = uri])
        EXCEPT ![p].pc = "done", ![p].res = result, ![p].trace = locks]

\* save_component_policy and update_policy_registry (policy_internal.rs): the
\* policy document is written to <id>.policy.yaml and its template replaces
\* the id's entry in the policy registry.
SavePolicy(id) ==
    /\ plugin_dir' = SetFile(id, "policy", "ok")
    /\ policy_registry' = Put(policy_registry, id, WasiStateTemplate("ok"))

\* Faulty variant of revoke_storage_permission_by_uri: the component is not
\* looked up.
RevokeStorageWithoutLookup(p, id, uri) ==
    /\ MayStart(p)
    /\ ops' = ops + 1
    /\ IF uri = ""
       THEN /\ task' = Answer(p, "revoke_storage_permission_by_uri", id, uri,
                              "Err:empty_uri", <<>>)
            /\ UNCHANGED <<plugin_dir, policy_registry>>
       ELSE /\ task' = Answer(p, "revoke_storage_permission_by_uri", id, uri, "Ok",
                              <<FileIo, FileIo>> \o Under("policy_registry"))
            /\ SavePolicy(id)
    /\ UNCHANGED <<components, registry, mode, out, boot, bg, live>>

\* lines 1378-1402.
RevokeStoragePermissionByUri(p, id, uri) ==
    /\ MayStart(p)
    /\ ops' = ops + 1
    /\ IF id \notin DOMAIN components
       THEN /\ task' = Answer(p, "revoke_storage_permission_by_uri", id, uri,
                              "Err:component_not_found", Under("components"))
            /\ UNCHANGED <<plugin_dir, policy_registry>>
       ELSE IF uri = ""
            THEN /\ task' = Answer(p, "revoke_storage_permission_by_uri", id, uri,
                                   "Err:empty_uri", Under("components"))
                 /\ UNCHANGED <<plugin_dir, policy_registry>>
            ELSE /\ task' = Answer(p, "revoke_storage_permission_by_uri", id, uri, "Ok",
                                   Under("components") \o <<FileIo, FileIo>>
                                       \o Under("policy_registry"))
                 /\ SavePolicy(id)
    /\ UNCHANGED <<components, registry, mode, out, boot, bg, live>>

\* revoke_permission (policy_internal.rs): on a loaded component the rule is
\* taken out of its policy document, which is saved and attached.
RevokePermission(p, id, kind) ==
    /\ MayStart(p)
    /\ ops' = ops + 1
    /\ IF id \notin DOMAIN components
       THEN /\ task' = Answer(p, "revoke_permission", id, kind,
                              "Err:component_not_found", Under("components"))
            /\ UNCHANGED <<plugin_dir, policy_registry>>
       ELSE /\ task' = Answer(p, "revoke_permission", id, kind, "Ok",
                              Under("components") \o <<FileIo, FileIo>>
                                  \o Under("policy_registry"))
            /\ SavePolicy(id)
    /\ UNCHANGED <<components, registry, mode, out, boot, bg, live>>

\* reset_permission (policy_internal.rs): on a loaded component the policy
\* file and its metadata file are removed and the id's template is dropped.
ResetPermission(p, id) ==
    /\ MayStart(p)
    /\ ops' = ops + 1
    /\ IF id \notin DOMAIN components
       THEN /\ task' = Answer(p, "reset_permission", id, "",
                              "Err:component_not_found", Under("components"))
            /\ UNCHANGED <<plugin_dir, policy_registry>>
       ELSE /\ task' = Answer(p, "reset_permission", id, "", "Ok",
                              Under("components") \o <<FileIo, FileIo>>
                                  \o Under("policy_registry"))
            /\ plugin_dir' = [plugin_dir EXCEPT ![id].policy = NoFile,
                                                ![id].policy_meta = NoFile]
            /\ policy_registry' = cleanup_policy_registry(policy_registry, id)
    /\ UNCHANGED <<components, registry, mode, out, boot, bg, live>>

\* A manager in which an earlier call loaded module A as c1, with or without a
\* policy file beside it; c2 was never loaded; every call has returned.
InitPermissions ==
    /\ components = Put(EmptyMap, "c1", ComponentInstance("ModA"))
    /\ registry = register_tools(NewRegistry, "c1", component_exports_to_tools("ModA"))
    /\ \E policy \in {"ok", NoFile} :
          /\ plugin_dir = [c1 |-> Cached("ModA", FALSE, policy), c2 |-> NoFiles]
          /\ policy_registry = IF policy = "ok"
                               THEN Put(EmptyMap, "c1", WasiStateTemplate("ok"))
                               ELSE EmptyMap
    /\ task = [p \in Procs |-> Idle]
    /\ ops = 0
    /\ mode = "sequential"
    /\ out = NoOutput
    /\ live = [id \in Ids |-> IF id = "c1"
                              THEN Live(component_exports_to_tools("ModA"))
                              ELSE NotLive]
    /\ boot = BootOff
    /\ bg = [e \in Entries |-> NoTask]

\* One caller at a time changes permissions and unloads.
NextPermissions ==
    \/ \E p \in Procs, id \in Ids, uri \in StorageUris :
          RevokeStoragePermissionByUri(p, id, uri)
    \/ \E p \in Procs, id \in Ids, kind \in PermissionKinds : RevokePermission(p, id, kind)
    \/ \E p \in Procs, id \in Ids : ResetPermission(p, id)
    \/ \E p \in Procs, id \in Ids : UnloadStart(p, id)
    \/ \E p \in Procs : UnloadRemoveFile(p)
    \/ \E p \in Procs : UnloadForgetComponent(p)
    \/ \E p \in Procs : UnloadUnregister(p)
    \/ \E p \in Procs : UnloadCleanupPolicy(p)
    \/ \E p \in Procs : Return(p)

PermissionSpec == InitPermissions /\ [][NextPermissions]_vars

\* The call p starts in this step is a permission call on an id that is not in
\* the component map, or revoke_storage_permission_by_uri with an empty URI.
RejectedPermissionCall(p) ==
    /\ task[p].pc = "idle"
    /\ task'[p].op \in PermissionOps
    /\ \/ task'[p].id \notin DOMAIN components
       \/ task'[p].op = "revoke_storage_permission_by_uri" /\ task'[p].resource = ""

\* C29: a permission call on an id that is not in the component map fails
\* with component-not-found, revoke_storage_permission_by_uri with an empty
\* URI fails too, and neither writes a policy file nor changes the policy
\* registry.
C29_PermissionCallsRejectUnknownAndEmpty ==
    [][\A p \in Procs :
          RejectedPermissionCall(p) =>
              /\ task'[p].pc = "done"
              /\ task'[p].res = IF task'[p].id \notin DOMAIN components
                                THEN "Err:component_not_found"
                                ELSE "Err:empty_uri"
              /\ plugin_dir' = plugin_dir
              /\ policy_registry' = policy_registry]_vars

\* revoke_storage_permission_by_uri on c2, which was never loaded, has failed
\* with component-not-found; c2 has no policy file and no template.
C29_Witness ==
    \E p \in Procs :
        /\ Returned(p, "revoke_storage_permission_by_uri")
        /\ task[p].id = "c2"
        /\ task[p].resource # ""
        /\ task[p].res = "Err:component_not_found"
        /\ plugin_dir["c2"].policy = NoFile
        /\ "c2" \notin DOMAIN policy_registry

(* ----------------------------- eager startup ---------------------------- *)

\* The orders in which read_dir can list the entries of a set of ids.
Orders(S) == {order \in [1..Cardinality(S) -> S] : \A i, j \in DOMAIN order :
                                                      order[i] = order[j] => i = j}

RECURSIVE RegisterAll(_, _)

\* lines 485-490, over the loaded components in their order.
RegisterAll(reg, order) ==
    IF order = <<>> THEN reg
    ELSE RegisterAll(register_tools(reg, Head(order),
                                    component_exports_to_tools(plugin_dir[Head(order)].wasm)),
                     Tail(order))

\* load_component_from_entry (lines 1471-1505): the entry is a .wasm that
\* Component::from_file compiles and instantiate_pre accepts.
LoadsFromEntry(id) == FileExists(id, "wasm") /\ plugin_dir[id].wasm \in ValidModules

\* new_with_policy, lines 482-524: load_components_parallel (lines 1341-1373)
\* keeps the entries that loaded and warns about the others; each kept
\* component is registered and inserted, and its co-located policy is attached
\* when it is read, parses and builds.
NewWithPolicy ==
    /\ mode = "startup"
    /\ boot.phase = "off"
    /\ ops = 0
    /\ LET loaded == {id \in Ids : LoadsFromEntry(id)}
       IN  /\ \E order \in Orders(loaded) : registry' = RegisterAll(NewRegistry, order)
           /\ components' = [id \in loaded |-> ComponentInstance(plugin_dir[id].wasm)]
           /\ policy_registry' = [id \in {i \in loaded : plugin_dir[i].policy = "ok"} |->
                                     WasiStateTemplate(plugin_dir[id].policy)]
    /\ boot' = [boot EXCEPT !.phase = "eager"]
    /\ UNCHANGED <<plugin_dir, task, ops, mode, out, live, bg>>

\* Plugin directories in which best-effort steps have something to fail on: a
\* module with a policy file that does not parse or does not build and no
\* cache beside it, modules that do not compile or link, and cached ones.
BestEffortDirs ==
    [c1 : {[Bare("ModA") EXCEPT !.policy = "unparseable"], Cached("ModA", FALSE, "ok"),
           Bare("NotWasm"), Cached("NoLink", FALSE, NoFile)},
     c2 : {NoFiles, [Bare("ModB") EXCEPT !.policy = "nobuild"],
           Cached("ModB", FALSE, NoFile)}]

InitBestEffort ==
    /\ components = EmptyMap
    /\ registry = NewRegistry
    /\ policy_registry = EmptyMap
    /\ plugin_dir \in BestEffortDirs
    /\ task = [p \in Procs |-> Idle]
    /\ ops = 0
    /\ mode = "startup"
    /\ out = NoOutput
    /\ live = [id \in Ids |-> NotLive]
    /\ boot = BootOff
    /\ bg = [e \in Entries |-> NoTask]

\* The ids callers load in this specification.
CallerLoads == {"c1"}

\* Either startup, the background one on a machine of two processors, and
\* beside it one caller that loads module B as c1.
NextBestEffort ==
    \/ NewWithPolicy
    \/ \E launch \in {l \in Launches : l.cpus = 2} : StartBackground(launch)
    \/ \E id \in Ids : HydrateEntry(id)
    \/ SpawnLoaders
    \/ \E e \in Entries : AcquirePermit(e)
    \/ \E e \in Entries : LoadEntry(e)
    \/ \E e \in Entries : EntrySavePrecompiled(e)
    \/ \E e \in Entries : EntryRegister(e)
    \/ \E e \in Entries : EntryInsert(e)
    \/ \E e \in Entries : EntrySaveMetadata(e)
    \/ \E e \in Entries : EntryAttachPolicy(e)
    \/ FinishBackground
    \/ \E id \in CallerLoads : LoadFetch("p1", id, "ModB")
    \/ \E p \in Procs : LoadSavePrecompiled(p)
    \/ \E p \in Procs : LoadRegister(p)
    \/ \E p \in Procs : LoadCopy(p)
    \/ \E p \in Procs : LoadSaveMetadata(p)
    \/ \E p \in Procs : LoadInsert(p)
    \/ \E p \in Procs : LoadAttachPolicy(p)
    \/ \E p \in Procs : Return(p)

BestEffortSpec == InitBestEffort /\ [][NextBestEffort]_vars

(* ---------------------- properties: best-effort steps ------------------- *)

\* The component is in the component map and the registry has it.
InMemoryWithTools(id) ==
    /\ id \in DOMAIN components
    /\ id \in DOMAIN registry.component_map
    /\ \A i \in DOMAIN component_exports_to_tools(components[id].component) :
           EntriesOf(registry, id,
               component_exports_to_tools(components[id].component)[i].normalized_name) # <<>>

\* What makes load_component fail: the fetch, the compilation, instantiate_pre
\* and the copy into the plugin directory.
LoadFailures == {"Err:fetch", "Err:compile", "Err:instantiate", "Err:copy"}

\* C30: no best-effort step fails the load or the startup around it. A load
\* fails only at the fetch, the compilation, instantiate_pre or the copy, and
\* one that ran alone and returned Ok has its component in memory with its
\* tools; the future of a directory entry fails only before it registers, and
\* one that returned Ok(true) has its component in memory as long as no caller
\* loads the id; after either startup every module no caller touched that
\* compiles and links is in memory with its tools, whatever became of the
\* other entries.
C30_BestEffortFailuresSurvived ==
    /\ \A p \in Procs :
           Returned(p, "load") => task[p].res \in {"New", "Replaced"} \cup LoadFailures
    /\ \A p \in Procs :
           LoadOk(p) /\ task[p].peers = 0 => InMemoryWithTools(task[p].id)
    /\ \A e \in Ids :
           /\ bg[e].pc = "done" /\ bg[e].res = "Err" => bg[e].component \in {"", "NoLink"}
           /\ bg[e].pc = "done" /\ bg[e].res = "Ok(true)" /\ (e \notin CallerLoads \/ ops = 0) =>
                  InMemoryWithTools(e)
    /\ \A id \in Ids \ CallerLoads :
           /\ boot.phase = "finished" /\ plugin_dir[id].wasm \in ValidModules =>
                  InMemoryWithTools(id)
           /\ boot.phase = "eager" /\ plugin_dir[id].wasm \in ValidModules =>
                  InMemoryWithTools(id)

\* The background startup is over: c1, which does not compile, failed, and c2,
\* whose policy file does not build and whose sidecar and cache were not
\* written, is in memory with its tools and without a template.
C30_Witness ==
    /\ boot.phase = "finished"
    /\ bg["c1"].res = "Err"
    /\ plugin_dir["c1"].wasm = "NotWasm"
    /\ bg["c2"].res = "Ok(true)"
    /\ plugin_dir["c2"].policy = "nobuild"
    /\ plugin_dir["c2"].cwasm = NoFile
    /\ ~plugin_dir["c2"].metadata.exists
    /\ InMemoryWithTools("c2")
    /\ "c2" \notin DOMAIN policy_registry


(* ----------------------- execute: the calls that fail ------------------- *)

\* What an execute that found its component can fail with: the template does
\* not build, the instance cannot be made, the parameters are no JSON or do not
\* fit the function, the guest traps, the host refuses a capability.
ExecuteFailures ==
    {"Err:state", "Err:instantiate", "Err:marshal", "Err:trap", "Err:denied"}

\* A failing call that also drops its component from the component map.
ExecFailsEvicting(p) ==
    /\ task[p].op = "execute"
    /\ task[p].pc \in {"exec_state", "exec_instantiate", "exec_call"}
    /\ task' = Finish(p, "Err:trap")
    /\ components' = Remove(components, task[p].id)
    /\ UNCHANGED <<registry, policy_registry, plugin_dir, ops, mode, out, boot, bg, live>>

\* The error returns of execute_component_call after get_component: line 1027
\* (policy_template.build, WassetteWasiState::new), line 1044
\* (instantiate_async), lines 1096-1097 (from_str, json_to_vals) and lines
\* 1101-1102 (call_async: a trap, or a host call the policy denies, after the
\* guest may have written to the state of its store).  The error is returned
\* with `?`; the store is dropped with the call.
ExecFails(p) ==
    /\ task[p].op = "execute"
    /\ \/ /\ task[p].pc = "exec_state"
          /\ task' = [task EXCEPT ![p].pc = "done", ![p].res = "Err:state",
                                  ![p].trace = @ \o Under("policy_registry")]
       \/ /\ task[p].pc = "exec_instantiate"
          /\ task' = [task EXCEPT ![p].pc = "done", ![p].res = "Err:instantiate",
                                  ![p].trace = Append(@, GuestExecution)]
       \/ /\ task[p].pc = "exec_call"
          /\ Exports(task[p].component, task[p].function_id)
          /\ \/ task' = Finish(p, "Err:marshal")
             \/ \E n \in {0, 1}, res \in {"Err:trap", "Err:denied"} :
                   task' = [task EXCEPT ![p].pc = "done", ![p].res = res,
                                        ![p].store = GuestWrites(task[p].store, n),
                                        ![p].trace = Append(@, GuestExecution)]
    /\ UNCHANGED <<components, registry, policy_registry, plugin_dir, ops, mode, out, boot, bg, live>>

\* Concurrent callers on a manager with c1 and c2 loaded: they execute, with
\* every outcome, and unload.
NextFrame ==
    \/ \E p \in Procs, id \in Ids, tool \in FunctionNames : ExecGetComponent(p, id, tool)
    \/ \E p \in Procs : ExecBuildState(p)
    \/ \E p \in Procs : ExecInstantiate(p)
    \/ \E p \in Procs : ExecLookup(p)
    \/ \E p \in Procs : ExecCall(p)
    \/ \E p \in Procs : ExecFails(p)
    \/ \E p \in Procs, id \in Ids : UnloadStart(p, id)
    \/ \E p \in Procs : UnloadRemoveFile(p)
    \/ \E p \in Procs : UnloadForgetComponent(p)
    \/ \E p \in Procs : UnloadUnregister(p)
    \/ \E p \in Procs : UnloadCleanupPolicy(p)
    \/ \E p \in Procs : Return(p)

FrameSpec == InitLoaded /\ [][NextFrame]_vars

(* ------------------------- properties: execute -------------------------- *)

\* C31: no step of an execute changes the component map, the tool registry,
\* the policy registry or a file of the plugin directory, whatever the call
\* ends with; an execute of an id that is not in the component map ends in its
\* first step with the component-not-found error, with no store made and the
\* policy registry not read.
C31_ExecuteChangesNothing ==
    [][\A p \in Procs :
          ExecuteStep(p) =>
              /\ components' = components
              /\ registry' = registry
              /\ policy_registry' = policy_registry
              /\ plugin_dir' = plugin_dir
              /\ (task[p].pc = "idle" /\ task'[p].id \notin DOMAIN components) =>
                    /\ task'[p].pc = "done"
                    /\ task'[p].res = "Err:component_not_found"
                    /\ ~task'[p].store.made
                    /\ Acquire("policy_registry") \notin Range(task'[p].trace)]_vars

\* An execute of c1 has failed with component-not-found, with no store made,
\* after an unload removed c1; c2 is in the component map with its tools and
\* its files as before.
C31_Witness ==
    \E p \in Procs :
        /\ Returned(p, "execute")
        /\ task[p].id = "c1"
        /\ task[p].res = "Err:component_not_found"
        /\ ~task[p].store.made
        /\ "c1" \notin DOMAIN components
        /\ components["c2"] = ComponentInstance("ModB")
        /\ HoldsExactly(registry, "c2", component_exports_to_tools("ModB"))
        /\ plugin_dir["c2"] = Cached("ModB", FALSE, NoFile)


(* ------------------------ properties: the cache ------------------------- *)

\* C32: when a load that ran alone has returned success, the instance in the
\* component map, the tools in the registry and the tools in the sidecar it
\* wrote are those of the module this load fetched.
C32_LoadInstallsFetchedModule ==
    \A p \in Procs :
        LoadOk(p) /\ task[p].peers = 0 =>
            /\ task[p].id \in DOMAIN components
            /\ components[task[p].id] = ComponentInstance(task[p].resource)
            /\ HoldsExactly(registry, task[p].id, component_exports_to_tools(task[p].resource))
            /\ plugin_dir[task[p].id].metadata.exists =>
                   plugin_dir[task[p].id].metadata.tools =
                       component_exports_to_tools(task[p].resource)


\* C33: the function identifier an execute of component C looks up for tool
\* name t is the one C registered for t, whichever components hold an entry
\* under the same name.
C33_ExecuteUsesOwnIdentifier ==
    \A p \in Procs :
        task[p].op = "execute" /\ task[p].function_id # NoIdentifier =>
            \E i \in DOMAIN component_exports_to_tools(task[p].component) :
                /\ component_exports_to_tools(task[p].component)[i].normalized_name = task[p].tool
                /\ component_exports_to_tools(task[p].component)[i].identifier =
                       task[p].function_id


(* --------------------- properties: registry and map --------------------- *)

\* No load, unload or call is running, and the startup loader has not been
\* started or has returned.
Quiescent ==
    /\ \A p \in Procs : ~Running(p)
    /\ boot.phase \in {"off", "finished"}

\* C34: at rest, every component that holds an entry in the registry is a key
\* of the component map.
C34_RegisteredIsLoaded ==
    Quiescent =>
        /\ \A id \in DOMAIN registry.component_map : id \in DOMAIN components
        /\ \A name \in DOMAIN registry.tool_map :
               \A i \in DOMAIN registry.tool_map[name] :
                   registry.tool_map[name][i].component_id \in DOMAIN components


(* ------------------- properties: unload beside a load ------------------- *)

\* C35: when an unload of X has returned success and every load of X there is
\* was in flight beside it (none was issued after it returned), X is in none
\* of the component map, the registry and the policy registry, and X has no
\* file in the plugin directory (but a policy file the operator wrote since).
C35_UnloadedStaysUnloaded ==
    \A p \in Procs :
        (/\ Returned(p, "unload")
         /\ task[p].res = "Ok"
         /\ \A q \in Procs \ {p} :
               task[q].op = "load" /\ task[q].id = task[p].id => task[q].peers = 2) =>
            /\ task[p].id \notin DOMAIN components
            /\ task[p].id \notin DOMAIN registry.component_map
            /\ task[p].id \notin DOMAIN policy_registry
            /\ [plugin_dir[task[p].id] EXCEPT !.policy = NoFile] = NoFiles


(* ---------------------- properties: concurrent loads -------------------- *)

\* C36: when two loads of one id that carried different modules and ran
\* concurrently, with no third call on the id beside them, have both returned
\* success, the instance in the component map and the tools in the registry
\* are those of one and the same of the two loads.
C36_ConcurrentLoadsLeaveOneVersion ==
    (/\ LoadOk("p1")
     /\ LoadOk("p2")
     /\ task["p1"].id = task["p2"].id
     /\ task["p1"].resource # task["p2"].resource
     /\ task["p1"].peers = 1
     /\ task["p2"].peers = 1) =>
        \E p \in Procs :
            /\ task[p].id \in DOMAIN components
            /\ components[task[p].id] = ComponentInstance(task[p].component)
            /\ HoldsExactly(registry, task[p].id, component_exports_to_tools(task[p].component))


(* ----------------------- properties: a failed unload -------------------- *)

\* C37: when the first call on a manager with loaded components is an unload
\* and it returns an error, every file the component had is still in the
\* plugin directory: the module, its cache, its sidecar and its policy file.
C37_FailedUnloadRemovesNothing ==
    \A p \in Procs :
        (Returned(p, "unload") /\ task[p].res = "Err:io" /\ ops = 1) =>
            /\ task[p].id \in DOMAIN components
            /\ \E policy \in {"ok", NoFile} :
                   /\ plugin_dir[task[p].id] =
                          Cached(components[task[p].id].component, FALSE, policy)
                   /\ policy = "ok" <=> task[p].id \in DOMAIN policy_registry


(* ---------------------- properties: the result text --------------------- *)

\* C38: the value the handler parses out of the string execute returned is
\* the value the guest returned; a string comes back as that string.
C38_ResultRoundTrip ==
    Did("call") /\ DeclaresOutputSchema => Parsed = out.value


(* ------------------- a restart on a directory in use -------------------- *)

\* The module and its sidecar of one load with the cache another load of the
\* id left: load_component writes <id>.cwasm of the module it fetched before
\* the copy that can still fail (lines 576-584), and when the copy fails
\* <id>.wasm and the sidecar stay those of the load before.
StaleCache(m, cached) == [Cached(m, FALSE, NoFile) EXCEPT !.cwasm = cached]

\* What earlier runs left for the manager that starts.
RestartDirs ==
    [c1 : {StaleCache("ModA", "ModB"), Cached("ModA", FALSE, NoFile), Bare("ModA"),
           Replaced("ModA", "ModB")},
     c2 : {NoFiles, Bare("ModB"), Cached("ModB", FALSE, "ok")}]

InitRestart ==
    /\ components = EmptyMap
    /\ registry = NewRegistry
    /\ policy_registry = EmptyMap
    /\ plugin_dir \in RestartDirs
    /\ task = [p \in Procs |-> Idle]
    /\ ops = 0
    /\ mode = "startup"
    /\ out = NoOutput
    /\ live = [id \in Ids |-> NotLive]
    /\ boot = BootOff
    /\ bg = [e \in Entries |-> NoTask]

\* The startup loader alone: no client calls the manager while it runs.
NextRestart ==
    \/ \E launch \in Launches : StartBackground(launch)
    \/ \E id \in Ids : HydrateEntry(id)
    \/ SpawnLoaders
    \/ \E e \in Entries : AcquirePermit(e)
    \/ \E e \in Entries : LoadEntry(e)
    \/ \E e \in Entries : EntrySavePrecompiled(e)
    \/ \E e \in Entries : EntryRegister(e)
    \/ \E e \in Entries : EntryInsert(e)
    \/ \E e \in Entries : EntrySaveMetadata(e)
    \/ \E e \in Entries : EntryAttachPolicy(e)
    \/ FinishBackground

RestartSpec == InitRestart /\ [][NextRestart]_vars

(* ------------------------ properties: phase 2 --------------------------- *)

\* C39: once phase 2 has loaded X, X is in the component map and the registry
\* holds for X exactly the tools extracted from the component now in the map:
\* their names, their function identifiers and their schemas.
C39_Phase2RegistersCompiledTools ==
    \A id \in Ids :
        bg[id].pc = "done" /\ bg[id].res = "Ok(true)" =>
            /\ id \in DOMAIN components
            /\ HoldsExactly(registry, id,
                            component_exports_to_tools(components[id].component))


(* ------------------- the startup loader runs to its end ----------------- *)

\* The loader launched with any concurrency argument a caller can pass: None,
\* or Some(n) for a usize n, 0 among them.
AnyLaunches == Launches \cup {[concurrency |-> Some(0), cpus |-> 8]}

NextLoader ==
    \/ \E launch \in AnyLaunches : StartBackground(launch)
    \/ \E id \in Ids : HydrateEntry(id)
    \/ SpawnLoaders
    \/ \E e \in Entries : AcquirePermit(e)
    \/ \E e \in Entries : LoadEntry(e)
    \/ \E e \in Entries : EntrySavePrecompiled(e)
    \/ \E e \in Entries : EntryRegister(e)
    \/ \E e \in Entries : EntryInsert(e)
    \/ \E e \in Entries : EntrySaveMetadata(e)
    \/ \E e \in Entries : EntryAttachPolicy(e)
    \/ FinishBackground

\* The tokio runtime polls every future that can make a step: phase 1 goes on
\* through the directory, a future whose acquire can be granted gets its permit,
\* a compilation, a write and a lock acquisition come to their end, and
\* join_all returns once every future is done.
LoaderFairness ==
    /\ \A id \in Ids : WF_vars(HydrateEntry(id))
    /\ WF_vars(SpawnLoaders)
    /\ \A e \in Entries :
          /\ WF_vars(AcquirePermit(e))
          /\ WF_vars(LoadEntry(e))
          /\ WF_vars(EntrySavePrecompiled(e))
          /\ WF_vars(EntryRegister(e))
          /\ WF_vars(EntryInsert(e))
          /\ WF_vars(EntrySaveMetadata(e))
          /\ WF_vars(EntryAttachPolicy(e))
    /\ WF_vars(FinishBackground)

LoaderSpec == InitRestart /\ [][NextLoader]_vars /\ LoaderFairness

(* ----------------------- properties: termination ------------------------ *)

\* C40: load_existing_components_async, once called, returns, with the future
\* of every module of the directory done and no future left waiting.
C40_LoaderReturns ==
    (boot.phase = "hydrate") ~>
        (/\ boot.phase = "finished"
         /\ \A id \in Ids : FileExists(id, "wasm") => bg[id].pc = "done"
         /\ \A e \in Entries : bg[e].pc \in {"none", "done"})

=============================================================================
